---- MODULE Spec2Model ----
(***************************************************************************)
(* Verification model of the wirc_server real-time engine:                 *)
(*   - the subscription registry and session commands of AsyncServer       *)
(*     (src/src/async_server.rs), as whole handlers (Spec) and at          *)
(*     lock-acquisition granularity (SpecConc);                            *)
(*   - the per-channel message index of AsyncMessageServer (SpecIndex);    *)
(*   - SendMessage and its fan-out (SpecSend).                             *)
(***************************************************************************)
EXTENDS Integers, Sequences, FiniteSets, TLC

\* ------------------------------------------------------------------ world
Sessions == {"s1", "s2"}
Hubs     == {"h1", "h2"}
Channels == {"c1"}
ChanKeys == Hubs \X Channels

Tri == {"allow", "deny", "unset"}

\* Bounds of the explored runs.
MaxTasks    == 3     \* registry commands issued in a run of SpecConc
MaxSends    == 2     \* SendMessage commands issued in a run of SpecSend
MaxMsgs     == 3     \* messages stored in the indexed channel
MaxSearches == 2     \* SearchMessageIndex requests issued in a run of SpecIndex
MaxCrashes  == 1     \* abrupt kills in a run of SpecIndex
MaxInFlight == 2     \* index handler futures pending at one time
MaxFaults   == 1     \* writer.commit() errors in a run of SpecIndex
MaxSink     == 1     \* events queued in one session's mailbox in SpecRoute
IdBytes     == 2     \* bytes of a message id (16 in the source)
MaxAuthInFlight == 2 \* calls of the authentication manager pending at one time
MaxTokens   == 1     \* tokens finalize_login generates in a run of SpecAuth
MaxNow      == 1     \* the clock at the end of a run of SpecAuth
\* crate::TANTIVY_COMMIT_THRESHOLD, scaled down (10 by default).
TANTIVY_COMMIT_THRESHOLD == 2

NoEntry == [channels |-> {}, hubs |-> {}]

\* ------------------------------------------------------------ hub snapshot
\* What Hub::load gives a handler about the calling user: whether the hub
\* file exists, whether the user is its owner or a member, whether the user
\* is muted, and the member's permission settings that bear on one channel
\* permission: the channel-specific setting, the hub-wide setting, and All.
HubViews ==
    { v \in [found : BOOLEAN, member : BOOLEAN, owner : BOOLEAN, muted : BOOLEAN,
             chanSetting : Tri, hubSetting : Tri, all : BOOLEAN] :
        /\ (v.owner => v.member)
        /\ (v.member => v.found)
        /\ (v.owner => /\ ~v.muted /\ ~v.all
                       /\ v.chanSetting = "unset" /\ v.hubSetting = "unset")
        /\ (v.all => v.chanSetting = "unset" /\ v.hubSetting = "unset")
        /\ (~v.member => /\ ~v.muted /\ ~v.all
                         /\ v.chanSetting = "unset" /\ v.hubSetting = "unset") }

\* The subscribe handlers never read hub.mutes.
SubscribeViews == { v \in HubViews : ~v.muted }

\* Hub::load(&hub_id): the hub or HubNotFound.
HubLoad(v) == IF v.found THEN "Ok" ELSE "HubNotFound"

\* hub.get_member(&user_id): the member or an error.
get_member(v) == IF v.member THEN "Ok" ELSE "MemberNotFound"

\* member.has_channel_permission(channel, permission, hub): first match wins.
has_channel_permission(v) ==
    IF v.owner THEN TRUE
    ELSE IF v.chanSetting # "unset" THEN v.chanSetting = "allow"
    ELSE IF v.hubSetting # "unset" THEN v.hubSetting = "allow"
    ELSE v.all

\* check_permission!(user, channel, perm, hub): returns the error from the
\* enclosing closure when the member lacks the permission.
check_permission(v, perm) ==
    IF has_channel_permission(v) THEN "Ok"
    ELSE IF perm = "Read" THEN "MissingChannelPermission(Read)"
    ELSE "MissingChannelPermission(Write)"

\* ------------------------------------------------------------------- maps
\* A HashMap as a function whose DOMAIN is the set of keys present.
MapRemove(m, k) == [x \in DOMAIN m \ {k} |-> m[x]]
MapPut(m, k, v) == [x \in DOMAIN m \cup {k} |-> IF x = k THEN v ELSE m[x]]
EmptyMap == [x \in {} |-> {}]

\* The calls of the authentication manager in a run, and a call not yet made.
AuthTasks == {1, 2, 3}
IdleAuthTask ==
    [op |-> "-", pc |-> "idle", id |-> 0, token |-> 0, state |-> 0, expires |-> 0,
     res |-> "-", before |-> {}]
\* manager: Arc<RwLock<Auth>>; Auth.sessions: Arc<RwLock<HashMap<..>>>
AuthLocks == {"manager", "sessions"}

AuthUsers == {1, 2}

\* 604800000 ms, the life of a token when the query names none, in clock steps.
Week == 2

\* Sha3_256 of a value, as text: what was hashed cannot be read back, and
\* different values give different text.
sha3(x) == <<"sha3", x>>

\* hash_auth(id, token): the hasher is reset between the two, so the second
\* component is the hash of the token alone.  Token 0 is String::new().
hash_auth(id, token) == <<sha3(id), sha3(token)>>

\* v.1.retain(|_, v| v > &mut now.clone()) over all users of a session map.
retain_unexpired(map, t) ==
    [h \in DOMAIN map |->
        [k \in { x \in DOMAIN map[h] : map[h][x] > t } |-> map[h][k]]]

\* Auth::load_tokens of the file content.
load_tokens(file, t) == retain_unexpired(file, t)

\* The (user, token, expiry) triples of a session file, unhashed: the tokens
\* that earlier runs of the server issued and saved.
stored_tokens(file) ==
    { r \in [id : AuthUsers, token : 1..Cardinality(AuthUsers), expires : 0..Week] :
        LET hashed == hash_auth(r.id, r.token)
        IN  /\ hashed[1] \in DOMAIN file
            /\ hashed[2] \in DOMAIN file[hashed[1]]
            /\ file[hashed[1]][hashed[2]] = r.expires }

\* The locks of AsyncServer: the RwLock of each top-level map, the RwLock of
\* each session's entry of `subscribed`, and the RwLock of each subscriber set.
SubscribedLock == <<"subscribed", "-", "-">>
ChannelsLock == <<"subscribed_channels", "-", "-">>
HubsLock == <<"subscribed_hubs", "-", "-">>
EntryLock(s) == <<"entry", s, "-">>
ChannelSetLock(k) == <<"channel_set", k[1], k[2]>>
HubSetLock(h) == <<"hub_set", h, "-">>
MapLocks == {SubscribedLock, ChannelsLock, HubsLock}
LockNames ==
    MapLocks \cup { EntryLock(s) : s \in Sessions }
             \cup { ChannelSetLock(k) : k \in Hubs \X Channels }
             \cup { HubSetLock(h) : h \in Hubs }

VARIABLES
    subscribed,            \* AsyncServer.subscribed: session -> (channels, hubs)
    subscribed_channels,   \* AsyncServer.subscribed_channels: (hub, channel) -> sessions
    subscribed_hubs,       \* AsyncServer.subscribed_hubs: hub -> sessions
    last,                  \* the command handled last and the response it returned
    rtasks,                \* registry handler futures in flight (SpecConc)
    store,                 \* per channel, how many messages the hub store holds
    sinks,                 \* per session, the ServerMessages do_send has queued
    stasks,                \* SendMessage handler futures in flight (SpecSend)
    notify,                \* the ServerNotification::NewMessage future in flight
    big_endian,            \* byte order of the build target
    recovery_log,          \* the channel's log file: <<>> when absent, else its bytes
    index_docs,            \* committed documents of the channel's index, id -> copies
    index_writers,         \* AsyncMessageServer.index_writers: key -> uncommitted docs
    pending_messages,      \* AsyncMessageServer.pending_messages: key -> (count, id)
    itasks,                \* index handler futures in flight (SpecIndex)
    crashes,               \* abrupt kills of the process so far
    precrash,              \* ids whose add had returned Ok before the latest kill
    add_returns,           \* ids of the adds that have returned, in that order
    stopped,               \* Actor::stopping of AsyncMessageServer has returned
    faults,                \* writer.commit() calls that have returned an error
    name,                  \* the name handed to is_valid_username
    valid_username,        \* what is_valid_username has returned for it
    hub_updates,           \* ServerNotification::HubUpdated in the server's mailbox
    api_calls,             \* hub-mutating HTTP requests handled so far
    lqueue,                \* per registry lock, the futures waiting for it, first come first
    indexes,               \* AsyncMessageServer.indexes: the keys it holds
    index_readers,         \* AsyncMessageServer.index_readers: the keys it holds
    auth_sessions,         \* Auth.sessions: hashed user id -> hashed token -> expiry
    session_file,          \* data/sessions.json, as save_tokens wrote it last
    login_sessions,        \* GitHub.sessions: the login secrets handed out
    atasks,                \* calls of the authentication manager in flight
    aqueue,                \* the futures waiting for Auth's two RwLocks, first come first
    now,                   \* get_system_millis()
    issued,                \* tokens finalize_login has entered: [id, token, expires]
    revoked                \* <<id, token>> issued before an invalidate_tokens(id) that returned

registry == <<subscribed, subscribed_channels, subscribed_hubs>>
sendvars == <<sinks, stasks, notify>>
\* State of the crate outside the two server actors (lib.rs, httpapi.rs), and
\* the wait queues of the registry's locks.
\* The authentication manager (auth.rs).
authvars == <<auth_sessions, session_file, login_sessions, atasks, aqueue, now,
              issued, revoked>>
outervars == <<name, valid_username, hub_updates, api_calls, lqueue, authvars>>
\* The two index maps whose values carry no state of their own.
mapvars == <<indexes, index_readers>>
restvars == <<outervars, mapvars>>
idxvars == <<big_endian, recovery_log, index_docs, index_writers, pending_messages,
             itasks, crashes, precrash, add_returns, stopped, faults>>
vars == <<subscribed, subscribed_channels, subscribed_hubs, last, rtasks, store,
          sinks, stasks, notify, big_endian, recovery_log, index_docs, index_writers,
          pending_messages, itasks, crashes, precrash, add_returns, stopped,
          faults, name, valid_username, hub_updates, api_calls, lqueue,
          indexes, index_readers, auth_sessions, session_file, login_sessions,
          atasks, aqueue, now, issued, revoked>>

\* ------------------------------------------------- registry map statements
\* subscribed.entry(addr).or_default().1.insert(hub_id)
FwdInsertHub(sub, addr, hub) ==
    LET e == IF addr \in DOMAIN sub THEN sub[addr] ELSE NoEntry
    IN  MapPut(sub, addr, [e EXCEPT !.hubs = @ \cup {hub}])

\* subscribed_hubs.entry(hub_id).or_default().insert(addr)
RevInsertHub(sh, hub, addr) ==
    MapPut(sh, hub, (IF hub \in DOMAIN sh THEN sh[hub] ELSE {}) \cup {addr})

\* subscribed.entry(addr).or_default().0.insert(key)
FwdInsertChannel(sub, addr, key) ==
    LET e == IF addr \in DOMAIN sub THEN sub[addr] ELSE NoEntry
    IN  MapPut(sub, addr, [e EXCEPT !.channels = @ \cup {key}])

\* subscribed_channels.entry(key).or_default().insert(addr)
RevInsertChannel(sc, key, addr) ==
    MapPut(sc, key, (IF key \in DOMAIN sc THEN sc[key] ELSE {}) \cup {addr})

\* Mutant: leaving a hub also drops the session's channels of that hub.
FwdRemoveHub_WithChannels(sub, addr, hub) ==
    IF addr \in DOMAIN sub
    THEN [sub EXCEPT ![addr].hubs = @ \ {hub},
                     ![addr].channels = { k \in @ : k[1] # hub }]
    ELSE sub

\* if let Some(subs) = subscribed.get(&addr) { subs.1.remove(&hub_id) }
FwdRemoveHub(sub, addr, hub) ==
    IF addr \in DOMAIN sub
    THEN [sub EXCEPT ![addr].hubs = @ \ {hub}]
    ELSE sub

\* Mutant: the reverse hub edge is left in place.
RevRemoveHub_Keep(sh, hub, addr) == sh

\* if let Some(subs) = subscribed_hubs.get(&hub_id) { subs.remove(&addr) }
RevRemoveHub(sh, hub, addr) ==
    IF hub \in DOMAIN sh THEN [sh EXCEPT ![hub] = @ \ {addr}] ELSE sh

\* if let Some(subs) = subscribed.get(&addr) { subs.0.remove(&key) }
FwdRemoveChannel(sub, addr, key) ==
    IF addr \in DOMAIN sub
    THEN [sub EXCEPT ![addr].channels = @ \ {key}]
    ELSE sub

\* Mutant: the subscriber set is fetched with entry(key).or_default(), which
\* creates an empty set for a channel nobody has subscribed to.
RevRemoveChannel_OrDefault(sc, key, addr) ==
    MapPut(sc, key, (IF key \in DOMAIN sc THEN sc[key] ELSE {}) \ {addr})

\* if let Some(subs) = subscribed_channels.get(&key) { subs.remove(&addr) }
RevRemoveChannel(sc, key, addr) ==
    IF key \in DOMAIN sc THEN [sc EXCEPT ![key] = @ \ {addr}] ELSE sc

\* Disconnect: for channel in subscribed.0 { subscribed_channels.get(channel)
\* .remove(addr) }
DisconnectChannels(sc, entry, addr) ==
    [k \in DOMAIN sc |-> IF k \in entry.channels THEN sc[k] \ {addr} ELSE sc[k]]

\* Mutant: Disconnect forgets the per-hub subscriber sets.
DisconnectHubs_Skip(sh, entry, addr) == sh

\* Disconnect: for hub in subscribed.1 { subscribed_hubs.get(hub).remove(addr) }
DisconnectHubs(sh, entry, addr) ==
    [h \in DOMAIN sh |-> IF h \in entry.hubs THEN sh[h] \ {addr} ELSE sh[h]]

\* ---------------------------------------------------- permission prologue
\* Hub::load(..).await.and_then(|hub| hub.get_member(..))? of SubscribeHub.
SubscribeHubCheck(v) ==
    IF HubLoad(v) # "Ok" THEN HubLoad(v) ELSE get_member(v)

\* Hub::load, get_member mapped to MemberNotFound, check_permission! of
\* SubscribeChannel, StartTyping, StopTyping and SendMessage.
ChannelCheck(v, perm) ==
    IF HubLoad(v) # "Ok" THEN HubLoad(v)
    ELSE IF get_member(v) # "Ok" THEN "MemberNotFound"
    ELSE check_permission(v, perm)

\* --------------------------------------------------- handlers, run whole
\* A handler future that has not been created.
IdleTask == [op |-> "idle", pc |-> "idle", addr |-> "-", hub |-> "-",
             channel |-> "-", res |-> "-", entry |-> NoEntry]
NoView == [found |-> FALSE, member |-> FALSE, owner |-> FALSE, muted |-> FALSE,
           chanSetting |-> "unset", hubSetting |-> "unset", all |-> FALSE]
IdleSend == [pc |-> "idle", hub |-> "-", channel |-> "-", view |-> NoView,
             res |-> "-", id |-> 0, returned |-> FALSE, before |-> {}]
\* No ServerNotification::NewMessage is being handled.
IdleNotify == [pc |-> "idle", hub |-> "-", channel |-> "-", id |-> 0]
\* No document of any message.
NoDocs == [m \in 1..MaxMsgs |-> 0]
IdleIndexTask == [pc |-> "idle", res |-> "-", new_pending |-> 0, after |-> {},
                  precrash |-> {}, found |-> NoDocs, commit_failed |-> FALSE]

\* The add of message m is task <<"add", m>>; searches are <<"search", n>>.
AddTasks == {"add"} \X (1..MaxMsgs)
SearchTasks == {"search"} \X (1..MaxSearches)
IndexTasks == AddTasks \cup SearchTasks

\* AsyncServer::new and AsyncMessageServer::new: every map is empty; the
\* data directory holds no message, no index and no log.
Construct ==
    /\ subscribed = EmptyMap
    /\ subscribed_channels = EmptyMap
    /\ subscribed_hubs = EmptyMap
    /\ last = [op |-> "none"]
    /\ rtasks = [t \in 1..MaxTasks |-> IdleTask]
    /\ store = [k \in ChanKeys |-> 0]
    /\ sinks = [s \in Sessions |-> <<>>]
    /\ stasks = [t \in 1..MaxSends |-> IdleSend]
    /\ notify = IdleNotify
    /\ recovery_log = <<>>
    /\ index_docs = NoDocs
    /\ index_writers = EmptyMap
    /\ pending_messages = EmptyMap
    /\ itasks = [t \in IndexTasks |-> IdleIndexTask]
    /\ crashes = 0
    /\ precrash = {}
    /\ add_returns = <<>>
    /\ stopped = FALSE
    /\ faults = 0
    /\ valid_username = {}
    /\ hub_updates = <<>>
    /\ api_calls = 0
    /\ lqueue = [l \in LockNames |-> <<>>]
    /\ indexes = {}
    /\ index_readers = {}
    /\ now = 0
    /\ auth_sessions = load_tokens(session_file, now)
    /\ login_sessions = {}
    /\ atasks = [t \in AuthTasks |-> IdleAuthTask]
    /\ aqueue = [l \in AuthLocks |-> <<>>]
    /\ issued = stored_tokens(session_file)
    /\ revoked = {}

Init == session_file = EmptyMap /\ Construct /\ big_endian = FALSE /\ name = <<>>

Disconnect(addr) ==
    /\ IF addr \in DOMAIN subscribed
       THEN /\ subscribed' = MapRemove(subscribed, addr)
            /\ subscribed_channels' =
                   DisconnectChannels(subscribed_channels, subscribed[addr], addr)
            /\ subscribed_hubs' = DisconnectHubs(subscribed_hubs, subscribed[addr], addr)
       ELSE UNCHANGED registry
    /\ last' = [op |-> "Disconnect", addr |-> addr,
                removed |-> IF addr \in DOMAIN subscribed
                            THEN subscribed[addr] ELSE NoEntry]
    /\ UNCHANGED <<rtasks, store, sendvars, idxvars, restvars>>

SubscribeHub(hub, addr, v) ==
    LET res == SubscribeHubCheck(v) IN
    /\ IF res = "Ok"
       THEN /\ subscribed' = FwdInsertHub(subscribed, addr, hub)
            /\ subscribed_hubs' = RevInsertHub(subscribed_hubs, hub, addr)
            /\ UNCHANGED subscribed_channels
       ELSE UNCHANGED registry
    /\ last' = [op |-> "SubscribeHub", addr |-> addr, hub |-> hub, res |-> res,
                found |-> v.found, member |-> v.member,
                perm |-> has_channel_permission(v)]
    /\ UNCHANGED <<rtasks, store, sendvars, idxvars, restvars>>

UnsubscribeHub(hub, addr) ==
    /\ subscribed' = FwdRemoveHub(subscribed, addr, hub)
    /\ subscribed_hubs' = RevRemoveHub(subscribed_hubs, hub, addr)
    /\ UNCHANGED subscribed_channels
    /\ last' = [op |-> "UnsubscribeHub", addr |-> addr, hub |-> hub]
    /\ UNCHANGED <<rtasks, store, sendvars, idxvars, restvars>>

\* Mutant: the edges are inserted before the permission check is consulted.
SubscribeChannel_InsertFirst(key, addr, v) ==
    /\ subscribed' = FwdInsertChannel(subscribed, addr, key)
    /\ subscribed_channels' = RevInsertChannel(subscribed_channels, key, addr)
    /\ UNCHANGED subscribed_hubs
    /\ last' = [op |-> "SubscribeChannel", addr |-> addr, key |-> key,
                res |-> ChannelCheck(v, "Read"),
                found |-> v.found, member |-> v.member,
                perm |-> has_channel_permission(v)]
    /\ UNCHANGED <<rtasks, store, sendvars, idxvars, restvars>>

SubscribeChannel(key, addr, v) ==
    LET res == ChannelCheck(v, "Read") IN
    /\ IF res = "Ok"
       THEN /\ subscribed' = FwdInsertChannel(subscribed, addr, key)
            /\ subscribed_channels' = RevInsertChannel(subscribed_channels, key, addr)
            /\ UNCHANGED subscribed_hubs
       ELSE UNCHANGED registry
    /\ last' = [op |-> "SubscribeChannel", addr |-> addr, key |-> key, res |-> res,
                found |-> v.found, member |-> v.member,
                perm |-> has_channel_permission(v)]
    /\ UNCHANGED <<rtasks, store, sendvars, idxvars, restvars>>

UnsubscribeChannel(key, addr) ==
    /\ subscribed' = FwdRemoveChannel(subscribed, addr, key)
    /\ subscribed_channels' = RevRemoveChannel(subscribed_channels, key, addr)
    /\ UNCHANGED subscribed_hubs
    /\ last' = [op |-> "UnsubscribeChannel", addr |-> addr, key |-> key]
    /\ UNCHANGED <<rtasks, store, sendvars, idxvars, restvars>>

Next ==
    \/ \E addr \in Sessions : Disconnect(addr)
    \/ \E h \in Hubs, addr \in Sessions, v \in SubscribeViews :
           SubscribeHub(h, addr, v)
    \/ \E h \in Hubs, addr \in Sessions : UnsubscribeHub(h, addr)
    \/ \E k \in ChanKeys, addr \in Sessions, v \in SubscribeViews :
           SubscribeChannel(k, addr, v)
    \/ \E k \in ChanKeys, addr \in Sessions : UnsubscribeChannel(k, addr)

Spec == Init /\ [][Next]_vars

\* ---------------------------------------------------------- registry views
\* S has (hub, channel) in its channel set.
FwdHasChannel(s, k) == s \in DOMAIN subscribed /\ k \in subscribed[s].channels
\* S has hub H in its hub set.
FwdHasHub(s, h) == s \in DOMAIN subscribed /\ h \in subscribed[s].hubs
\* The subscriber set of (hub, channel) contains S.
RevHasChannel(s, k) == k \in DOMAIN subscribed_channels /\ s \in subscribed_channels[k]
\* The subscriber set of H contains S.
RevHasHub(s, h) == h \in DOMAIN subscribed_hubs /\ s \in subscribed_hubs[h]

\* No map references S.
Unreferenced(s) ==
    /\ s \notin DOMAIN subscribed
    /\ \A k \in ChanKeys : ~RevHasChannel(s, k)
    /\ \A h \in Hubs : ~RevHasHub(s, h)

\* C1: after any sequence of completed registry operations the forward and
\* the reverse maps agree, for channel edges and for hub edges.
C1_ForwardReverseAgree ==
    \A s \in Sessions :
        /\ \A k \in ChanKeys : FwdHasChannel(s, k) <=> RevHasChannel(s, k)
        /\ \A h \in Hubs : FwdHasHub(s, h) <=> RevHasHub(s, h)

\* C1 witness: a session that unsubscribed or disconnected after subscribing,
\* while another session still holds a channel edge and a hub edge.
C1_Witness ==
    /\ last.op \in {"Disconnect", "UnsubscribeHub", "UnsubscribeChannel"}
    /\ \E s \in Sessions, k \in ChanKeys, h \in Hubs :
          /\ FwdHasChannel(s, k) /\ RevHasChannel(s, k)
          /\ FwdHasHub(s, h) /\ RevHasHub(s, h)
          /\ s # last.addr
    /\ last.addr \in UNION {subscribed_hubs[h] : h \in DOMAIN subscribed_hubs}
           \/ last.addr \notin DOMAIN subscribed

IsSubscribe(l) == l.op \in {"SubscribeHub", "SubscribeChannel"}

\* C4: SubscribeChannel by a member who lacks channel Read returns an error
\* and leaves all three registry maps as they were.
C4_NoReadNoEdge ==
    [][(last'.op = "SubscribeChannel" /\ last'.member /\ ~last'.perm)
        => (last'.res # "Ok" /\ UNCHANGED registry)]_vars

\* C4 witness: such a SubscribeChannel was refused while the session holds
\* a hub edge, and the session has no channel edge.
C4_Witness ==
    /\ last.op = "SubscribeChannel" /\ last.member /\ ~last.perm
    /\ last.res = "MissingChannelPermission(Read)"
    /\ \E h \in Hubs : FwdHasHub(last.addr, h)
    /\ ~FwdHasChannel(last.addr, last.key) /\ ~RevHasChannel(last.addr, last.key)

\* C5: a subscribe by a user who is not a member of the hub fails with the
\* NotAMember error and leaves the registry maps unchanged.
C5_Original_NotAMember ==
    [][(IsSubscribe(last') /\ last'.found /\ ~last'.member)
        => (last'.res = "NotAMember" /\ UNCHANGED registry)]_vars

\* ============================================================== SpecConc
\* The registry handlers as the futures they return: each runs on the actor's
\* arbiter and yields at its .await points, so handlers of different commands
\* interleave between lock acquisitions.  A step is one statement, from the
\* acquisition of its top-level map lock to the release of that lock.

\* Disconnect keeps the guard of subscribed.write() (a temporary of the
\* if-let scrutinee) until the end of the if-let block.
SubscribedLockFree(t) ==
    \A u \in (1..MaxTasks) \ {t} : rtasks[u].pc \notin {"channels", "hubs"}

\* Hub snapshots of SpecConc: the hub's owner, and a user who is not a member.
ConcViews == { v \in SubscribeViews : v.found /\ (v.owner \/ ~v.member) }

\* The hub the commands of SpecConc are about.
ConcHubs == {"h1"}

\* The actor takes a command from its mailbox and creates the handler future.
ConcIssue(t, op, addr, hub, channel) ==
    /\ rtasks[t].pc = "idle"
    /\ \A u \in 1..(t - 1) : rtasks[u].pc # "idle"
    /\ rtasks' = [rtasks EXCEPT ![t] =
           [IdleTask EXCEPT !.op = op, !.addr = addr, !.hub = hub,
                            !.channel = channel,
                            !.pc = IF op = "Disconnect" THEN "remove" ELSE "load"]]
    /\ UNCHANGED <<registry, last, store, sendvars, idxvars, restvars>>

\* Hub::load(..).await.and_then(..)? of SubscribeHub and SubscribeChannel.
ConcSubscribeLoad(t, v) ==
    /\ rtasks[t].pc = "load"
    /\ LET res == IF rtasks[t].op = "SubscribeHub"
                  THEN SubscribeHubCheck(v) ELSE ChannelCheck(v, "Read")
       IN  rtasks' = [rtasks EXCEPT ![t].res = res,
                                    ![t].pc = IF res = "Ok" THEN "fwd" ELSE "done"]
    /\ UNCHANGED <<registry, last, store, sendvars, idxvars, restvars>>

\* subscribed.write().await.entry(addr).or_default().write().await ... insert
ConcSubscribeFwd(t) ==
    /\ rtasks[t].pc = "fwd"
    /\ SubscribedLockFree(t)
    /\ subscribed' =
         IF rtasks[t].op = "SubscribeHub"
         THEN FwdInsertHub(subscribed, rtasks[t].addr, rtasks[t].hub)
         ELSE FwdInsertChannel(subscribed, rtasks[t].addr,
                               <<rtasks[t].hub, rtasks[t].channel>>)
    /\ rtasks' = [rtasks EXCEPT ![t].pc = "rev"]
    /\ UNCHANGED <<subscribed_channels, subscribed_hubs, last, store, sendvars, idxvars, restvars>>

\* subscribed_hubs / subscribed_channels .write().await.entry(..) ... insert(addr)
ConcSubscribeRev(t) ==
    /\ rtasks[t].pc = "rev"
    /\ IF rtasks[t].op = "SubscribeHub"
       THEN /\ subscribed_hubs' =
                   RevInsertHub(subscribed_hubs, rtasks[t].hub, rtasks[t].addr)
            /\ UNCHANGED subscribed_channels
       ELSE /\ subscribed_channels' =
                   RevInsertChannel(subscribed_channels,
                                    <<rtasks[t].hub, rtasks[t].channel>>, rtasks[t].addr)
            /\ UNCHANGED subscribed_hubs
    /\ rtasks' = [rtasks EXCEPT ![t].pc = "done"]
    /\ UNCHANGED <<subscribed, last, store, sendvars, idxvars, restvars>>

\* if let Some(subscribed) = subscribed.write().await.remove(&msg.addr)
ConcDisconnectRemove(t) ==
    /\ rtasks[t].pc = "remove"
    /\ SubscribedLockFree(t)
    /\ IF rtasks[t].addr \in DOMAIN subscribed
       THEN /\ subscribed' = MapRemove(subscribed, rtasks[t].addr)
            /\ rtasks' = [rtasks EXCEPT ![t].entry = subscribed[rtasks[t].addr],
                                        ![t].pc = "channels"]
       ELSE /\ UNCHANGED subscribed
            /\ rtasks' = [rtasks EXCEPT ![t].pc = "done"]
    /\ UNCHANGED <<subscribed_channels, subscribed_hubs, last, store, sendvars, idxvars, restvars>>

\* let subscribed_channels = subscribed_channels.write().await; for channel ..
ConcDisconnectChannels(t) ==
    /\ rtasks[t].pc = "channels"
    /\ subscribed_channels' =
           DisconnectChannels(subscribed_channels, rtasks[t].entry, rtasks[t].addr)
    /\ rtasks' = [rtasks EXCEPT ![t].pc = "hubs"]
    /\ UNCHANGED <<subscribed, subscribed_hubs, last, store, sendvars, idxvars, restvars>>

\* let subscribed_hubs = subscribed_hubs.write().await; for hub ..
ConcDisconnectHubs(t) ==
    /\ rtasks[t].pc = "hubs"
    /\ subscribed_hubs' =
           DisconnectHubs(subscribed_hubs, rtasks[t].entry, rtasks[t].addr)
    /\ rtasks' = [rtasks EXCEPT ![t].pc = "done"]
    /\ UNCHANGED <<subscribed, subscribed_channels, last, store, sendvars, idxvars, restvars>>

NextConc ==
    \/ \E t \in 1..MaxTasks, addr \in Sessions :
           ConcIssue(t, "Disconnect", addr, "-", "-")
    \/ \E t \in 1..MaxTasks, addr \in Sessions, h \in ConcHubs :
           ConcIssue(t, "SubscribeHub", addr, h, "-")
    \/ \E t \in 1..MaxTasks, addr \in Sessions, h \in ConcHubs, c \in Channels :
           ConcIssue(t, "SubscribeChannel", addr, h, c)
    \/ \E t \in 1..MaxTasks, v \in ConcViews : ConcSubscribeLoad(t, v)
    \/ \E t \in 1..MaxTasks : ConcSubscribeFwd(t)
    \/ \E t \in 1..MaxTasks : ConcSubscribeRev(t)
    \/ \E t \in 1..MaxTasks : ConcDisconnectRemove(t)
    \/ \E t \in 1..MaxTasks : ConcDisconnectChannels(t)
    \/ \E t \in 1..MaxTasks : ConcDisconnectHubs(t)

SpecConc == Init /\ [][NextConc]_vars

\* Every issued handler future has completed.
ConcQuiescent == \A t \in 1..MaxTasks : rtasks[t].pc \in {"idle", "done"}

\* C2: when subscribes and Disconnects interleaved at lock acquisitions have
\* all completed, no per-hub or per-channel subscriber set contains a session
\* that has no matching entry in the forward session index.
C2_NoDanglingEdge ==
    ConcQuiescent =>
        \A s \in Sessions :
            /\ \A h \in Hubs : RevHasHub(s, h) => FwdHasHub(s, h)
            /\ \A k \in ChanKeys : RevHasChannel(s, k) => FwdHasChannel(s, k)

\* ============================================================== SpecSend
\* SendMessage as the future its handler returns, next to the whole-handler
\* channel subscriptions and Disconnect.  The caller has its response when the
\* future resolves.

\* api::send_message(user, hub, channel, text): refuses a muted user, else
\* appends the message to the channel's store and returns it.
api_send_message(v) == IF v.muted THEN "Muted" ELSE "Ok"

\* ServerMessage::NewMessage(hub_id, channel_id, message)
NewMessage(hub, channel, id) ==
    [type |-> "NewMessage", hub |-> hub, channel |-> channel, id |-> id]

\* Mutant: the event goes to the subscribers of every channel.
send_channel_AnyChannel(q, sc, message, key, closed) ==
    [s \in Sessions |->
        IF \E k \in DOMAIN sc : s \in sc[k] \ closed
        THEN Append(q[s], message) ELSE q[s]]

\* send_channel: connection.do_send(message.clone()) for every subscriber of
\* the channel; the result of do_send is dropped, and do_send fails for the
\* recipients in closed, whose mailbox is closed.
send_channel(q, sc, message, key, closed) ==
    [s \in Sessions |->
        IF key \in DOMAIN sc /\ s \in sc[key] \ closed
        THEN Append(q[s], message) ELSE q[s]]

\* The actor takes SendMessage from its mailbox and creates the future; the
\* hub is as v shows it for as long as the command is handled.
SendIssue(t, key, v) ==
    /\ stasks[t].pc = "idle"
    /\ \A u \in 1..(t - 1) : stasks[u].pc # "idle"
    /\ stasks' = [stasks EXCEPT ![t] =
           [IdleSend EXCEPT !.pc = "check", !.hub = key[1], !.channel = key[2],
                            !.view = v,
                            !.before = { u \in 1..MaxSends :
                                           /\ stasks[u].returned
                                           /\ stasks[u].res = "Ok"
                                           /\ stasks[u].hub = key[1]
                                           /\ stasks[u].channel = key[2] }]]
    /\ UNCHANGED <<registry, last, rtasks, store, sinks, notify, idxvars, restvars>>

\* Mutant: the caller has its response once the permission check has passed;
\* the store and the fan-out follow from a detached task.
SendCheck_RespondFirst(t) ==
    /\ stasks[t].pc = "check"
    /\ LET res == ChannelCheck(stasks[t].view, "Write")
       IN  stasks' = [stasks EXCEPT
               ![t].res = res,
               ![t].returned = TRUE,
               ![t].pc = IF res = "Ok" THEN "store" ELSE "done"]
    /\ UNCHANGED <<registry, last, rtasks, store, sinks, notify, idxvars, restvars>>

\* Mutant: the outcome of the permission prologue is dropped and the command
\* goes on to the store.
SendCheck_Unchecked(t) ==
    /\ stasks[t].pc = "check"
    /\ stasks' = [stasks EXCEPT ![t].pc = "store"]
    /\ UNCHANGED <<registry, last, rtasks, store, sinks, notify, idxvars, restvars>>

\* Hub::load, get_member, check_permission!(.., ChannelPermission::Write, ..)?
SendCheck(t) ==
    /\ stasks[t].pc = "check"
    /\ LET res == ChannelCheck(stasks[t].view, "Write")
       IN  stasks' = [stasks EXCEPT
               ![t].res = res,
               ![t].returned = (res # "Ok"),
               ![t].pc = IF res = "Ok" THEN "store" ELSE "done"]
    /\ UNCHANGED <<registry, last, rtasks, store, sinks, notify, idxvars, restvars>>

\* Mutant: the error of api::send_message is dropped and the message goes on
\* to the fan-out.
SendStore_IgnoreError(t) ==
    /\ stasks[t].pc = "store"
    /\ LET key == <<stasks[t].hub, stasks[t].channel>>
           res == api_send_message(stasks[t].view)
       IN  /\ store' = IF res = "Ok" THEN [store EXCEPT ![key] = @ + 1] ELSE store
           /\ stasks' = [stasks EXCEPT ![t].id = store[key] + 1, ![t].res = res,
                                       ![t].pc = "fanout"]
    /\ UNCHANGED <<registry, last, rtasks, sinks, notify, idxvars, restvars>>

\* let message = api::send_message(..).await?;
SendStore(t) ==
    /\ stasks[t].pc = "store"
    /\ LET key == <<stasks[t].hub, stasks[t].channel>>
           res == api_send_message(stasks[t].view)
       IN  IF res = "Ok"
           THEN /\ store' = [store EXCEPT ![key] = @ + 1]
                /\ stasks' = [stasks EXCEPT ![t].id = store[key] + 1,
                                            ![t].pc = "fanout"]
           ELSE /\ UNCHANGED store
                /\ stasks' = [stasks EXCEPT ![t].res = res, ![t].returned = TRUE,
                                            ![t].pc = "done"]
    /\ UNCHANGED <<registry, last, rtasks, sinks, notify, idxvars, restvars>>

\* Self::send_channel(..).await; Ok(message_id)
SendFanout(t, closed) ==
    /\ stasks[t].pc = "fanout"
    /\ sinks' = send_channel(sinks, subscribed_channels,
                             NewMessage(stasks[t].hub, stasks[t].channel, stasks[t].id),
                             <<stasks[t].hub, stasks[t].channel>>, closed)
    /\ stasks' = [stasks EXCEPT ![t].res = "Ok", ![t].returned = TRUE,
                                ![t].pc = "done"]
    /\ UNCHANGED <<registry, last, rtasks, store, notify, idxvars, restvars>>

\* SpecSend is about one channel; its subscribers are the hub's owner, and
\* its senders are a user who is not a member of the hub and members with or
\* without a hub-wide Write grant, muted or not.
SendKeys == {<<"h1", "c1">>}
SendSubscribeViews == { v \in SubscribeViews : v.owner }
SendViews == { v \in HubViews : /\ v.found /\ ~v.owner /\ ~v.all
                                /\ v.chanSetting = "unset"
                                /\ v.hubSetting \in {"allow", "unset"} }

NextSend ==
    \/ \E k \in SendKeys, addr \in Sessions, v \in SendSubscribeViews :
           SubscribeChannel(k, addr, v)
    \/ \E k \in SendKeys, addr \in Sessions : UnsubscribeChannel(k, addr)
    \/ \E addr \in Sessions : Disconnect(addr)
    \/ \E t \in 1..MaxSends, k \in SendKeys, v \in SendViews : SendIssue(t, k, v)
    \/ \E t \in 1..MaxSends : SendCheck(t)
    \/ \E t \in 1..MaxSends : SendStore(t)
    \/ \E t \in 1..MaxSends, closed \in SUBSET Sessions : SendFanout(t, closed)

SpecSend == Init /\ [][NextSend]_vars

\* The NewMessage event of send task t.
EventOf(t) == NewMessage(stasks[t].hub, stasks[t].channel, stasks[t].id)

\* Session s has been handed the event e.
Received(s, e) == \E i \in DOMAIN sinks[s] : sinks[s][i] = e

\* C9: if SendMessage A had returned to its caller before SendMessage B was
\* issued in the same channel, every session that receives both NewMessage
\* events receives A's before B's.
C9_OrderPreserved ==
    \A b \in 1..MaxSends : \A a \in stasks[b].before : \A s \in Sessions :
        \A i, j \in DOMAIN sinks[s] :
            (sinks[s][i] = EventOf(a) /\ sinks[s][j] = EventOf(b)) => i < j

\* C9 witness: B was issued after A returned, one session holds both events
\* and another session holds B's only.
C9_Witness ==
    \E b \in 1..MaxSends : \E a \in stasks[b].before :
        /\ stasks[a].res = "Ok" /\ stasks[b].res = "Ok" /\ stasks[b].pc = "done"
        /\ \E s \in Sessions : Received(s, EventOf(a)) /\ Received(s, EventOf(b))
        /\ \E s \in Sessions : ~Received(s, EventOf(a)) /\ Received(s, EventOf(b))

IdxKey == <<"h1", "c1">>

\* u128::to_le_bytes, on ids of IdBytes bytes.
to_le_bytes(id) == [i \in 1..IdBytes |-> (id \div (256 ^ (i - 1))) % 256]

\* u128::to_ne_bytes: the bytes in the order of the build target.
to_ne_bytes(id) ==
    IF big_endian
    THEN [i \in 1..IdBytes |-> to_le_bytes(id)[IdBytes + 1 - i]]
    ELSE to_le_bytes(id)

\* u128::from_le_bytes
RECURSIVE from_le_bytes(_)
from_le_bytes(b) == IF b = <<>> THEN 0 ELSE Head(b) + 256 * from_le_bytes(Tail(b))

\* channel.async_get_all_messages_from(&last_id): the stored messages created
\* after last_id, exclusive; n messages are stored and their ids are 1..n.
messages_after(n, last_id) == { m \in 1..n : m > last_id }

\* The last message of a non-empty replay.
LastOf(ids) == CHOOSE m \in ids : \A x \in ids : x <= m

\* add_message_to_writer for each id of ids.
AddDocs(docs, ids) ==
    [m \in 1..MaxMsgs |-> docs[m] + (IF m \in ids THEN 1 ELSE 0)]

\* writer.commit(): the writer's documents join the committed ones.
Commit(committed, docs) == [m \in 1..MaxMsgs |-> committed[m] + docs[m]]

\* The messages setup_index replays: none without a log file, else those the
\* store returns after the id read from the log.
ReplayIds ==
    IF recovery_log = <<>> THEN {}
    ELSE messages_after(store[IdxKey], from_le_bytes(recovery_log))

\* What writer.commit() may return: Ok (TRUE), or an error (FALSE).
CommitResults == IF faults < MaxFaults THEN {TRUE, FALSE} ELSE {TRUE}

\* The futures holding the writer's Mutex: an add, from writer_arc.lock()
\* to drop(writer).
WriterLocked == \E t \in AddTasks : itasks[t].pc \in {"a_read", "a_log"}

\* The futures holding a read guard of pending_messages: both handlers take
\* it in the scrutinee of an if-let and keep it to the end of that block.
PendingReaders ==
    { t \in IndexTasks : itasks[t].pc \in {"a_log", "s_commit", "s_log", "s_write"} }

\* pending_messages.write() is granted when no guard is out.
CanWritePending == PendingReaders = {}

\* pending_messages.read() queues behind a write() that is waiting.
CanReadPending ==
    ~(PendingReaders # {} /\ \E t \in IndexTasks : itasks[t].pc \in {"a_write", "s_write"})

\* The futures the actor has created and that have not resolved.
InFlight == { t \in IndexTasks : itasks[t].pc \notin {"idle", "done", "killed"} }

\* api::send_message / Channel::add_message: one more message is durable in
\* the channel's store.
IndexStore ==
    /\ store[IdxKey] < MaxMsgs
    /\ store' = [store EXCEPT ![IdxKey] = @ + 1]
    /\ UNCHANGED <<registry, last, rtasks, sendvars, idxvars, restvars>>

\* The actor takes NewMessageForIndex of a stored message from its mailbox.
AddIssue(m) ==
    /\ ~stopped
    /\ m <= store[IdxKey]
    /\ itasks[<<"add", m>>].pc = "idle"
    /\ Cardinality(InFlight) < MaxInFlight
    /\ itasks' = [itasks EXCEPT ![<<"add", m>>].pc = "a_check"]
    /\ UNCHANGED <<registry, last, rtasks, store, sendvars, restvars, big_endian, stopped,
                   faults, recovery_log,
                   index_docs, index_writers, pending_messages, crashes, precrash,
                   add_returns>>

\* The actor takes SearchMessageIndex from its mailbox; the query matches
\* every message of the channel.
SearchIssue(n) ==
    /\ ~stopped
    /\ itasks[<<"search", n>>].pc = "idle"
    /\ \A k \in 1..(n - 1) : itasks[<<"search", k>>].pc # "idle"
    /\ Cardinality(InFlight) < MaxInFlight
    /\ itasks' = [itasks EXCEPT ![<<"search", n>>] =
           [IdleIndexTask EXCEPT
               !.pc = "s_read",
               !.precrash = precrash,
               !.after = { m \in 1..MaxMsgs :
                             /\ itasks[<<"add", m>>].pc = "done"
                             /\ itasks[<<"add", m>>].res = "Ok" } \ precrash]]
    /\ UNCHANGED <<registry, last, rtasks, store, sendvars, restvars, big_endian, stopped,
                   faults, recovery_log,
                   index_docs, index_writers, pending_messages, crashes, precrash,
                   add_returns>>

\* get_writer / get_reader: is the channel's index open?
IndexCheck(t) ==
    /\ itasks[t].pc \in {"a_check", "s_check"}
    /\ itasks' = [itasks EXCEPT ![t].pc =
           IF IdxKey \in DOMAIN index_writers
           THEN (IF t[1] = "add" THEN "a_lock" ELSE "s_search")
           ELSE (IF t[1] = "add" THEN "a_setup" ELSE "s_setup")]
    /\ UNCHANGED <<registry, last, rtasks, store, sendvars, restvars, big_endian, stopped,
                   faults, recovery_log,
                   index_docs, index_writers, pending_messages, crashes, precrash,
                   add_returns>>

\* A handler future resolves with res; an add is entered in add_returns.
Return(t, res) ==
    /\ itasks' = [itasks EXCEPT ![t].pc = "done", ![t].res = res]
    /\ add_returns' = IF t[1] = "add" THEN Append(add_returns, t[2]) ELSE add_returns

\* setup_index without lines 250-252: the replayed messages are committed and
\* the log is left as it was.
IndexSetup_NoLog(t) ==
    /\ itasks[t].pc \in {"a_setup", "s_setup"}
    /\ IF IdxKey \in DOMAIN index_writers
       THEN /\ Return(t, "CreateWriter")
            /\ UNCHANGED <<index_docs, index_writers, mapvars>>
       ELSE /\ index_docs' = Commit(index_docs, AddDocs(NoDocs, ReplayIds))
            /\ indexes' = indexes \cup {IdxKey}
            /\ index_readers' = index_readers \cup {IdxKey}
            /\ index_writers' = MapPut(index_writers, IdxKey, NoDocs)
            /\ itasks' = [itasks EXCEPT ![t].pc =
                              IF t[1] = "add" THEN "a_lock" ELSE "s_search"]
            /\ UNCHANGED add_returns
    /\ UNCHANGED <<registry, last, rtasks, store, sendvars, outervars, big_endian, stopped,
                   faults, recovery_log,
                   pending_messages, crashes, precrash>>

\* setup_index: open or create the index, its reader and its writer (the
\* writer cannot be created while another writer of the directory lives);
\* when the log file exists, replay the messages after the logged id, commit,
\* log the last replayed id; then enter the index in the three maps.
IndexSetup(t) ==
    /\ itasks[t].pc \in {"a_setup", "s_setup"}
    /\ IF IdxKey \in DOMAIN index_writers
       THEN /\ Return(t, "CreateWriter")
            /\ UNCHANGED <<recovery_log, index_docs, index_writers, mapvars>>
       ELSE /\ index_docs' = Commit(index_docs, AddDocs(NoDocs, ReplayIds))
            /\ recovery_log' = IF ReplayIds # {}
                               THEN to_ne_bytes(LastOf(ReplayIds)) ELSE recovery_log
            /\ indexes' = indexes \cup {IdxKey}
            /\ index_readers' = index_readers \cup {IdxKey}
            /\ index_writers' = MapPut(index_writers, IdxKey, NoDocs)
            /\ itasks' = [itasks EXCEPT ![t].pc =
                              IF t[1] = "add" THEN "a_lock" ELSE "s_search"]
            /\ UNCHANGED add_returns
    /\ UNCHANGED <<registry, last, rtasks, store, sendvars, outervars, big_endian, stopped, faults,
                   pending_messages, crashes, precrash>>

\* let mut writer = writer_arc.lock().await; add_message_to_writer(..)?
AddLock(t) ==
    /\ itasks[t].pc = "a_lock"
    /\ ~WriterLocked
    /\ index_writers' = [index_writers EXCEPT ![IdxKey] = AddDocs(@, {t[2]})]
    /\ itasks' = [itasks EXCEPT ![t].pc = "a_read"]
    /\ UNCHANGED <<registry, last, rtasks, store, sendvars, restvars, big_endian, stopped,
                   faults, recovery_log,
                   index_docs, pending_messages, crashes, precrash, add_returns>>

\* if let Some((pending, _)) = pending_messages.read().await.get(..): count
\* the message, and commit when pending has reached the threshold; when that
\* commit fails the handler returns Err(IndexError::Commit) at once.
AddRead(t) ==
    /\ itasks[t].pc = "a_read"
    /\ CanReadPending
    /\ IF IdxKey \in DOMAIN pending_messages
       THEN IF pending_messages[IdxKey].count >= TANTIVY_COMMIT_THRESHOLD
            THEN \E ok \in CommitResults :
                   IF ok
                   THEN /\ index_docs' = Commit(index_docs, index_writers[IdxKey])
                        /\ index_writers' = [index_writers EXCEPT ![IdxKey] = NoDocs]
                        /\ itasks' = [itasks EXCEPT ![t].pc = "a_log",
                                                    ![t].new_pending = 0]
                        /\ UNCHANGED <<faults, add_returns>>
                   ELSE /\ itasks' = [itasks EXCEPT ![t].pc = "done",
                                                    ![t].res = "Commit",
                                                    ![t].commit_failed = TRUE]
                        /\ add_returns' = Append(add_returns, t[2])
                        /\ faults' = faults + 1
                        /\ UNCHANGED <<index_docs, index_writers>>
            ELSE /\ itasks' = [itasks EXCEPT
                        ![t].pc = "a_log",
                        ![t].new_pending = pending_messages[IdxKey].count + 1]
                 /\ UNCHANGED <<index_docs, index_writers, faults, add_returns>>
       ELSE /\ itasks' = [itasks EXCEPT ![t].pc = "a_log", ![t].new_pending = 1]
            /\ UNCHANGED <<index_docs, index_writers, faults, add_returns>>
    /\ UNCHANGED <<registry, last, rtasks, store, sendvars, restvars, big_endian, stopped,
                   recovery_log, pending_messages, crashes, precrash>>

\* The add handler with log_last_message (tokio::fs::write, which replaces the
\* file) in the place of log_if_nologs.
AddLog_Overwrite(t) ==
    /\ itasks[t].pc = "a_log"
    /\ recovery_log' = to_ne_bytes(t[2])
    /\ itasks' = [itasks EXCEPT ![t].pc = "a_write"]
    /\ UNCHANGED <<registry, last, rtasks, store, sendvars, restvars, big_endian, stopped,
                   faults, index_docs, add_returns,
                   index_writers, pending_messages, crashes, precrash>>

\* Mutant: the add below the threshold never writes the log.
AddLog_NoBootstrap(t) ==
    /\ itasks[t].pc = "a_log"
    /\ IF itasks[t].new_pending = 0
       THEN /\ recovery_log' = to_ne_bytes(t[2])
            /\ itasks' = [itasks EXCEPT ![t].pc = "a_write"]
            /\ UNCHANGED add_returns
       ELSE /\ itasks' = [itasks EXCEPT ![t].pc = "a_write"]
            /\ UNCHANGED <<recovery_log, add_returns>>
    /\ UNCHANGED <<registry, last, rtasks, store, sendvars, restvars, big_endian, stopped,
                   faults, index_docs,
                   index_writers, pending_messages, crashes, precrash>>

\* log_last_message(..).await? after the commit; log_if_nologs(..).await?
\* otherwise, which fails when the log file exists (create_new).
AddLog(t) ==
    /\ itasks[t].pc = "a_log"
    /\ IF itasks[t].new_pending = 0 \/ recovery_log = <<>>
       THEN /\ recovery_log' = to_ne_bytes(t[2])
            /\ itasks' = [itasks EXCEPT ![t].pc = "a_write"]
            /\ UNCHANGED add_returns
       ELSE /\ Return(t, "Io")
            /\ UNCHANGED recovery_log
    /\ UNCHANGED <<registry, last, rtasks, store, sendvars, restvars, big_endian, stopped,
                   faults, index_docs,
                   index_writers, pending_messages, crashes, precrash>>

\* pending_messages.write().await.insert(key, (count, id)): the add enters
\* (new_pending, message_id) and returns Ok; the search enters (0, pending.1)
\* and goes on to get_searcher.
PendingWrite(t) ==
    /\ itasks[t].pc \in {"a_write", "s_write"}
    /\ CanWritePending
    /\ IF t[1] = "add"
       THEN /\ pending_messages' =
                   MapPut(pending_messages, IdxKey,
                          [count |-> itasks[t].new_pending, id |-> t[2]])
            /\ Return(t, "Ok")
       ELSE /\ pending_messages' =
                   MapPut(pending_messages, IdxKey,
                          [count |-> 0, id |-> pending_messages[IdxKey].id])
            /\ itasks' = [itasks EXCEPT ![t].pc = "s_check"]
            /\ UNCHANGED add_returns
    /\ UNCHANGED <<registry, last, rtasks, store, sendvars, restvars, big_endian, stopped,
                   faults, recovery_log,
                   index_docs, index_writers, crashes, precrash>>

\* if let Some(pending) = pending_messages.read().await.get(..) { if
\* pending.0 != 0 { .. } }
SearchRead(t) ==
    /\ itasks[t].pc = "s_read"
    /\ CanReadPending
    /\ itasks' = [itasks EXCEPT ![t].pc =
           IF IdxKey \in DOMAIN pending_messages /\ pending_messages[IdxKey].count # 0
           THEN "s_commit" ELSE "s_check"]
    /\ UNCHANGED <<registry, last, rtasks, store, sendvars, restvars, big_endian, stopped,
                   faults, recovery_log,
                   index_docs, index_writers, pending_messages, crashes, precrash,
                   add_returns>>

\* let _ = get_writer(..).await?.lock().await.commit(): the channel has an
\* entry in pending_messages only after an add of this process got its writer,
\* so the writer is in the map.  The commit's result is dropped: the handler
\* goes on to log_last_message whether the commit succeeded or not.
SearchCommit(t) ==
    /\ itasks[t].pc = "s_commit"
    /\ IdxKey \in DOMAIN index_writers
    /\ ~WriterLocked
    /\ \E ok \in CommitResults :
          IF ok
          THEN /\ index_docs' = Commit(index_docs, index_writers[IdxKey])
               /\ index_writers' = [index_writers EXCEPT ![IdxKey] = NoDocs]
               /\ itasks' = [itasks EXCEPT ![t].pc = "s_log"]
               /\ UNCHANGED faults
          ELSE /\ itasks' = [itasks EXCEPT ![t].pc = "s_log",
                                           ![t].commit_failed = TRUE]
               /\ faults' = faults + 1
               /\ UNCHANGED <<index_docs, index_writers>>
    /\ UNCHANGED <<registry, last, rtasks, store, sendvars, restvars, big_endian, stopped,
                   recovery_log, pending_messages, crashes, precrash, add_returns>>

\* Self::log_last_message(.., &pending.1).await?
SearchLog(t) ==
    /\ itasks[t].pc = "s_log"
    /\ recovery_log' = to_ne_bytes(pending_messages[IdxKey].id)
    /\ itasks' = [itasks EXCEPT ![t].pc = "s_write"]
    /\ UNCHANGED <<registry, last, rtasks, store, sendvars, restvars, big_endian, stopped,
                   faults, index_docs,
                   index_writers, pending_messages, crashes, precrash, add_returns>>

\* reader.reload(); searcher.search(..): the ids of the committed documents.
SearchQuery(t) ==
    /\ itasks[t].pc = "s_search"
    /\ itasks' = [itasks EXCEPT ![t].pc = "done", ![t].res = "Ok",
                                ![t].found = index_docs]
    /\ UNCHANGED <<registry, last, rtasks, store, sendvars, restvars, big_endian, stopped,
                   faults, recovery_log,
                   index_docs, index_writers, pending_messages, crashes, precrash,
                   add_returns>>

\* The process is killed without shutdown and started again: the maps of the
\* new AsyncMessageServer are empty, the futures are gone, the disk is as it
\* was.
Crash ==
    /\ ~stopped
    /\ crashes < MaxCrashes
    /\ crashes' = crashes + 1
    /\ indexes' = {}
    /\ index_readers' = {}
    /\ index_writers' = EmptyMap
    /\ pending_messages' = EmptyMap
    /\ itasks' = [t \in IndexTasks |->
                     IF itasks[t].pc \in {"idle", "done"} THEN itasks[t]
                     ELSE [itasks[t] EXCEPT !.pc = "killed"]]
    /\ precrash' = { m \in 1..MaxMsgs : /\ itasks[<<"add", m>>].pc = "done"
                                        /\ itasks[<<"add", m>>].res = "Ok" }
    /\ UNCHANGED <<registry, last, rtasks, store, sendvars, outervars, big_endian, stopped,
                   faults, recovery_log,
                   index_docs, add_returns>>

\* Actor::stopping, run to its end by futures::executor::block_on on the
\* actor's thread: no handler future is polled meanwhile, so the block ends
\* only if writer_arc.lock() and pending_messages.read() are granted at once.
\* For the open index the writer is committed, the result dropped;
\* log_last_message(..) is called without .await, so its future is dropped
\* unpolled and the log file is not written.  The actor then stops and the
\* futures in flight are never polled again.
Stopping ==
    /\ ~stopped
    /\ IF IdxKey \in DOMAIN index_writers
       THEN /\ ~WriterLocked
            /\ CanReadPending
            /\ index_docs' = Commit(index_docs, index_writers[IdxKey])
            /\ index_writers' = [index_writers EXCEPT ![IdxKey] = NoDocs]
       ELSE UNCHANGED <<index_docs, index_writers>>
    /\ itasks' = [t \in IndexTasks |->
                     IF itasks[t].pc \in {"idle", "done", "killed"} THEN itasks[t]
                     ELSE [itasks[t] EXCEPT !.pc = "killed"]]
    /\ stopped' = TRUE
    /\ UNCHANGED <<registry, last, rtasks, store, sendvars, restvars, big_endian, faults,
                   recovery_log, pending_messages, crashes, precrash, add_returns>>

NextIndex ==
    \/ IndexStore
    \/ \E m \in 1..MaxMsgs : AddIssue(m)
    \/ \E n \in 1..MaxSearches : SearchIssue(n)
    \/ \E t \in IndexTasks : IndexCheck(t)
    \/ \E t \in IndexTasks : IndexSetup(t)
    \/ \E t \in AddTasks : AddLock(t)
    \/ \E t \in AddTasks : AddRead(t)
    \/ \E t \in AddTasks : AddLog(t)
    \/ \E t \in IndexTasks : PendingWrite(t)
    \/ \E t \in SearchTasks : SearchRead(t)
    \/ \E t \in SearchTasks : SearchCommit(t)
    \/ \E t \in SearchTasks : SearchLog(t)
    \/ \E t \in SearchTasks : SearchQuery(t)
    \/ Crash
    \/ Stopping

\* The build target is little-endian or big-endian.
InitIndex ==
    session_file = EmptyMap /\ Construct /\ big_endian \in BOOLEAN /\ name = <<>>

SpecIndex == InitIndex /\ [][NextIndex]_vars

\* The future waits for pending_messages.write() while it holds a read guard
\* of pending_messages itself: the write is never granted.
SelfDeadlocked(t) == itasks[t].pc = "s_write" /\ t \in PendingReaders

\* The log file holds the bytes log_last_message writes for id.
LogHolds(id) == recovery_log = to_ne_bytes(id)

\* C6: index durability.  A search after an abrupt kill and restart returns
\* the id of every message whose add had returned before the kill: replay
\* from the store leaves no stored message out of the index.
C6_IndexDurability ==
    \A t \in SearchTasks :
        (itasks[t].pc = "done" /\ itasks[t].res = "Ok")
            => \A m \in itasks[t].precrash : itasks[t].found[m] >= 1

\* C7: commit-threshold triggering.  On a fresh index, with no search and no
\* kill, once exactly TANTIVY_COMMIT_THRESHOLD + 1 adds have been handled
\* they all succeeded, pending_count is 0 and the log holds the id of the
\* most recent add.
C7_ThresholdCommit ==
    (/\ crashes = 0
     /\ \A t \in SearchTasks : itasks[t].pc = "idle"
     /\ \A t \in AddTasks : itasks[t].pc \in {"idle", "done"}
     /\ Len(add_returns) = TANTIVY_COMMIT_THRESHOLD + 1)
    => /\ \A i \in DOMAIN add_returns : itasks[<<"add", add_returns[i]>>].res = "Ok"
       /\ IdxKey \in DOMAIN pending_messages
       /\ pending_messages[IdxKey].count = 0
       /\ LogHolds(add_returns[Len(add_returns)])

\* C8: search reads its own writes.  A search issued after add(m) returned Ok
\* (the process not killed in between) is never stuck on its own lock, and
\* when it has returned its result contains m.
C8_SearchReadsOwnWrites ==
    \A t \in SearchTasks :
        (itasks[t].pc \notin {"idle", "killed"} /\ itasks[t].after # {})
            => /\ ~SelfDeadlocked(t)
               /\ itasks[t].pc = "done" =>
                     /\ itasks[t].res = "Ok"
                     /\ \A m \in itasks[t].after : itasks[t].found[m] >= 1

\* C11: recovery-log invariant.  In every reachable state, kills included,
\* every stored message created at or before the message whose id the log
\* holds is in the committed index: the log never names a message that is not
\* committed yet.
C11_RecoveryLogInvariant ==
    \A id \in 1..MaxMsgs :
        LogHolds(id) => \A m \in 1..id : index_docs[m] >= 1

\* C12: replay is idempotent with respect to message id.  Whatever was
\* committed before a kill, after open_or_create has replayed from the store
\* each message id occurs at most once in the committed index.
C12_ReplayIdempotent ==
    \A m \in 1..MaxMsgs : index_docs[m] <= 1

\* --------------------------------------------------------------- SpecOpen
\* Opening and catch-up alone: the add handler, whose get_writer opens the
\* index, the store and the kill-and-restart of the process, without searches,
\* shutdown or commit errors.
NextOpen ==
    \/ IndexStore
    \/ \E m \in 1..MaxMsgs : AddIssue(m)
    \/ \E t \in AddTasks : IndexCheck(t)
    \/ \E t \in AddTasks : IndexSetup(t)
    \/ \E t \in AddTasks : AddLock(t)
    \/ \E t \in AddTasks : AddRead(t)
    \/ \E t \in AddTasks : AddLog(t)
    \/ \E t \in AddTasks : PendingWrite(t)
    \/ Crash

SpecOpen == InitIndex /\ [][NextOpen]_vars

\* setup_index has just opened the channel's index: it entered the writer in
\* index_writers in this step.
Opened == IdxKey \notin DOMAIN index_writers /\ IdxKey \in DOMAIN index_writers'

\* C13: catch-up on open.  When setup_index opens the index of a channel whose
\* log file exists and reads id L from it, it adds one document for every
\* message of messages_after(L) and commits them; then the log holds the id of
\* the last replayed message, and when nothing was replayed the log file is
\* as it was.
C13_CatchUpOnOpen ==
    [][(Opened /\ recovery_log # <<>>) =>
          LET L == from_le_bytes(recovery_log)
              replayed == messages_after(store[IdxKey], L)
          IN  /\ index_docs' = [m \in 1..MaxMsgs |->
                                   index_docs[m] + (IF m \in replayed THEN 1 ELSE 0)]
              /\ replayed # {} => recovery_log' = to_ne_bytes(LastOf(replayed))
              /\ replayed = {} => recovery_log' = recovery_log]_vars

\* The index was reopened after a kill and the log holds the id of a message
\* that only the replay has added: no add was ever issued for it.
C13_Witness ==
    /\ crashes = 1
    /\ IdxKey \in DOMAIN index_writers
    /\ \E m \in 1..MaxMsgs : /\ itasks[<<"add", m>>].pc = "idle"
                             /\ LogHolds(m)
                             /\ index_docs[m] = 1

\* The messages a handler of this run has added to the writer and answered
\* for, in the order of the answers: Ok, or the Io error of log_if_nologs
\* that follows add_message_to_writer.
Added == SelectSeq(add_returns,
                   LAMBDA m : itasks[<<"add", m>>].res \in {"Ok", "Io"})

\* C14: orderly shutdown flushes the index.  Once the message server has
\* stopped (the process never killed), every message added to the open
\* index's writer is committed and the log holds the id of the last added
\* message.
C14_ShutdownFlushes ==
    (stopped /\ crashes = 0 /\ Added # <<>>)
        => /\ \A i \in DOMAIN Added : index_docs[Added[i]] >= 1
           /\ LogHolds(Added[Len(Added)])

\* C19: a failed commit leaves pending_count unchanged.  While a search whose
\* forced commit returned an error has not returned, pending_count keeps its
\* non-zero value and the handler does not go on to
\* pending_messages.write().await.insert(key, (0, id)), so that the next
\* operation finds the count and retries the commit; an add whose commit at
\* the threshold failed has returned the commit error.
C19_FailedCommitKeepsPending ==
    /\ \A t \in SearchTasks :
          (itasks[t].commit_failed /\ itasks[t].pc \notin {"done", "killed"})
              => /\ IdxKey \in DOMAIN pending_messages
                 /\ pending_messages[IdxKey].count # 0
                 /\ itasks[t].pc # "s_write"
    /\ \A t \in AddTasks :
          itasks[t].commit_failed => itasks[t].res = "Commit"

\* ============================================================= SpecRoute
\* The handlers that fan an event out, run whole, next to the subscribe
\* handlers and UnsubscribeChannel: StartTyping and StopTyping over send_channel,
\* ServerNotification::HubUpdated over send_hub, and
\* ServerNotification::NewMessage, which awaits the message server's answer
\* before its send_channel.  A session's mailbox holds at most MaxSink events
\* in the explored runs.

\* ServerMessage::TypingStart(user_id, hub_id, channel_id)
TypingStart(hub, channel) ==
    [type |-> "TypingStart", hub |-> hub, channel |-> channel, id |-> 0]

\* ServerMessage::TypingStop(user_id, hub_id, channel_id)
TypingStop(hub, channel) ==
    [type |-> "TypingStop", hub |-> hub, channel |-> channel, id |-> 0]

\* ServerMessage::HubUpdated(hub_id, update_type)
HubUpdated(hub) == [type |-> "HubUpdated", hub |-> hub, channel |-> "-", id |-> 0]

\* The subscriber set of a channel, of a hub: empty when the map has no key.
ChannelSubscribers(key) ==
    IF key \in DOMAIN subscribed_channels THEN subscribed_channels[key] ELSE {}
HubSubscribers(hub) ==
    IF hub \in DOMAIN subscribed_hubs THEN subscribed_hubs[hub] ELSE {}

\* send_hub: connection.do_send(message.clone()) for every subscriber of the
\* hub; the result of do_send is dropped, and do_send fails for the
\* recipients in closed.
send_hub(q, sh, message, hub, closed) ==
    [s \in Sessions |->
        IF hub \in DOMAIN sh /\ s \in sh[hub] \ closed
        THEN Append(q[s], message) ELSE q[s]]

\* The mailbox of every session of S has room for one more event.
SinkRoom(S) == \A s \in S : Len(sinks[s]) < MaxSink

\* Mutant: the handler gives up at a do_send that fails: the subscribers are
\* not served and the command returns the error.
StartTyping_StopAtError(key, v, closed) ==
    LET res == ChannelCheck(v, "Write")
        failed == ChannelSubscribers(key) \cap closed
    IN
    /\ SinkRoom(ChannelSubscribers(key))
    /\ sinks' = IF res = "Ok" /\ failed = {}
                THEN send_channel(sinks, subscribed_channels,
                                  TypingStart(key[1], key[2]), key, closed)
                ELSE sinks
    /\ last' = [op |-> "StartTyping", key |-> key,
                res |-> IF res = "Ok" /\ failed # {} THEN "SendError" ELSE res,
                failed |-> IF res = "Ok" THEN failed ELSE {}]
    /\ UNCHANGED <<registry, rtasks, store, stasks, notify, idxvars, restvars>>

\* Handler<client_command::StartTyping>: Hub::load, get_member,
\* check_permission!(.., Write, ..)?, then send_channel and Ok(()).
StartTyping(key, v, closed) ==
    LET res == ChannelCheck(v, "Write") IN
    /\ SinkRoom(ChannelSubscribers(key))
    /\ sinks' = IF res = "Ok"
                THEN send_channel(sinks, subscribed_channels,
                                  TypingStart(key[1], key[2]), key, closed)
                ELSE sinks
    /\ last' = [op |-> "StartTyping", key |-> key, res |-> res,
                member |-> v.member, perm |-> has_channel_permission(v),
                failed |-> IF res = "Ok" THEN ChannelSubscribers(key) \cap closed
                           ELSE {}]
    /\ UNCHANGED <<registry, rtasks, store, stasks, notify, idxvars, restvars>>

\* Mutant: StopTyping fans out without the permission prologue.
StopTyping_Unchecked(key, v, closed) ==
    LET res == ChannelCheck(v, "Write") IN
    /\ SinkRoom(ChannelSubscribers(key))
    /\ sinks' = send_channel(sinks, subscribed_channels,
                             TypingStop(key[1], key[2]), key, closed)
    /\ last' = [op |-> "StopTyping", key |-> key, res |-> res,
                member |-> v.member, perm |-> has_channel_permission(v),
                failed |-> {}]
    /\ UNCHANGED <<registry, rtasks, store, stasks, notify, idxvars, restvars>>

\* Handler<client_command::StopTyping>: the same with TypingStop.
StopTyping(key, v, closed) ==
    LET res == ChannelCheck(v, "Write") IN
    /\ SinkRoom(ChannelSubscribers(key))
    /\ sinks' = IF res = "Ok"
                THEN send_channel(sinks, subscribed_channels,
                                  TypingStop(key[1], key[2]), key, closed)
                ELSE sinks
    /\ last' = [op |-> "StopTyping", key |-> key, res |-> res,
                member |-> v.member, perm |-> has_channel_permission(v),
                failed |-> IF res = "Ok" THEN ChannelSubscribers(key) \cap closed
                           ELSE {}]
    /\ UNCHANGED <<registry, rtasks, store, stasks, notify, idxvars, restvars>>

\* Handler<ServerNotification>, HubUpdated: send_hub; the handler answers ().
NotifyHubUpdated(hub, closed) ==
    /\ SinkRoom(HubSubscribers(hub))
    /\ sinks' = send_hub(sinks, subscribed_hubs, HubUpdated(hub), hub, closed)
    /\ last' = [op |-> "HubUpdated", hub |-> hub, res |-> "Ok",
                failed |-> HubSubscribers(hub) \cap closed]
    /\ UNCHANGED <<registry, rtasks, store, stasks, notify, idxvars, restvars>>

\* Handler<ServerNotification>, NewMessage: the message is sent to the
\* message server and the future waits for the answer.
NotifyNewMessage(key, m) ==
    /\ notify.pc = "idle"
    /\ notify' = [pc |-> "index", hub |-> key[1], channel |-> key[2], id |-> m]
    /\ UNCHANGED <<registry, last, rtasks, store, sinks, stasks, idxvars, restvars>>

\* The answer of the message server (or the error of a closed mailbox) has
\* come and is dropped; send_channel.  SpecRoute does not run the message
\* server, so the answer may come at any time.
NotifyFanout(closed) ==
    /\ notify.pc = "index"
    /\ SinkRoom(ChannelSubscribers(<<notify.hub, notify.channel>>))
    /\ LET key == <<notify.hub, notify.channel>>
           e == NewMessage(notify.hub, notify.channel, notify.id)
       IN  sinks' = send_channel(sinks, subscribed_channels, e, key, closed)
    /\ notify' = IdleNotify
    /\ UNCHANGED <<registry, last, rtasks, store, stasks, idxvars, restvars>>

\* The subscribers are the owners of their hubs and hub h1 is the hub
\* subscribed to; session s2 may leave the indexed channel; the typing users
\* are a member with a hub-wide Write grant and one without, and StopTyping
\* is sent in the indexed channel; the notified message is the first of the
\* indexed channel; do_send fails for nobody or for session s1.
RouteSubscribeViews == { v \in SubscribeViews : v.owner }
RouteHubs == {"h1"}
RouteTypingViews == { v \in SendViews : ~v.muted }
RouteMsgs == {1}
RouteClosed == {{}, {"s1"}}
RouteLeavers == {"s2"}

NextRoute ==
    \/ \E h \in RouteHubs, addr \in Sessions, v \in RouteSubscribeViews :
           SubscribeHub(h, addr, v)
    \/ \E k \in ChanKeys, addr \in Sessions, v \in RouteSubscribeViews :
           SubscribeChannel(k, addr, v)
    \/ \E addr \in RouteLeavers : UnsubscribeChannel(IdxKey, addr)
    \/ \E k \in ChanKeys, v \in RouteTypingViews, closed \in RouteClosed :
           StartTyping(k, v, closed)
    \/ \E v \in RouteTypingViews, closed \in RouteClosed :
           StopTyping(IdxKey, v, closed)
    \/ \E h \in Hubs, closed \in RouteClosed : NotifyHubUpdated(h, closed)
    \/ \E m \in RouteMsgs : NotifyNewMessage(IdxKey, m)
    \/ \E closed \in RouteClosed : NotifyFanout(closed)

SpecRoute == Init /\ [][NextRoute]_vars

\* The events of a channel, and the event a session has just been handed.
ChannelEvents == {"NewMessage", "TypingStart", "TypingStop"}
Handed(s) == sinks'[s][Len(sinks'[s])]

\* C16: routing exactness.  Whatever a fan-out hands to a session is one event
\* appended to its mailbox; a NewMessage, TypingStart or TypingStop of
\* (hub, channel) goes only to sessions in the subscriber set of exactly that
\* (hub, channel) at that time, a HubUpdated of hub H only to sessions in the
\* subscriber set of H; and a typing command that passed its check hands its
\* event to every subscriber of the channel whose do_send did not fail, the
\* sender's own session being one of them when it is subscribed.
C16_RoutingExact ==
    [][/\ \A s \in Sessions :
            sinks'[s] # sinks[s] =>
                /\ sinks'[s] = Append(sinks[s], Handed(s))
                /\ Handed(s).type \in ChannelEvents
                       => RevHasChannel(s, <<Handed(s).hub, Handed(s).channel>>)
                /\ Handed(s).type = "HubUpdated" => RevHasHub(s, Handed(s).hub)
                /\ Handed(s).type \in ChannelEvents \cup {"HubUpdated"}
       /\ (last' # last /\ last'.op \in {"StartTyping", "StopTyping"}
                        /\ last'.res = "Ok")
            => \A s \in ChannelSubscribers(last'.key) \ last'.failed :
                   /\ sinks'[s] # sinks[s]
                   /\ Handed(s).type =
                          (IF last'.op = "StartTyping" THEN "TypingStart"
                           ELSE "TypingStop")
                   /\ <<Handed(s).hub, Handed(s).channel>> = last'.key]_vars

\* C16 witness: one session is subscribed to hub h1 only and has been handed
\* nothing but HubUpdated, the other is subscribed to a channel only and has
\* been handed a channel event of that channel.
C16_Witness ==
    \E s, r \in Sessions, k \in ChanKeys :
        /\ RevHasHub(s, "h1") /\ \A c \in ChanKeys : ~RevHasChannel(s, c)
        /\ sinks[s] = <<HubUpdated("h1")>>
        /\ RevHasChannel(r, k) /\ ~RevHasHub(r, "h1")
        /\ Len(sinks[r]) = 1
        /\ sinks[r][1].type \in ChannelEvents
        /\ <<sinks[r][1].hub, sinks[r][1].channel>> = k

\* The event and the subscriber set of the fan-out that the handler named in
\* l has run.
FanoutEvent(l) ==
    IF l.op = "StartTyping" THEN TypingStart(l.key[1], l.key[2])
    ELSE IF l.op = "StopTyping" THEN TypingStop(l.key[1], l.key[2])
    ELSE HubUpdated(l.hub)
FanoutSubscribers(l) ==
    IF l.op = "HubUpdated" THEN HubSubscribers(l.hub) ELSE ChannelSubscribers(l.key)

\* C15: fan-out isolation.  When do_send fails for some subscribers of the
\* hub or channel, the event is dropped for those sessions only: every other
\* subscriber has it appended to its mailbox, and the command returns Ok as
\* it does when every delivery succeeds.
C15_FanoutIsolation ==
    [][(/\ last' # last
        /\ last'.op \in {"StartTyping", "StopTyping", "HubUpdated"}
        /\ last'.failed # {})
       => /\ last'.res = "Ok"
          /\ \A s \in last'.failed : sinks'[s] = sinks[s]
          /\ \A s \in FanoutSubscribers(last') \ last'.failed :
                 sinks'[s] = Append(sinks[s], FanoutEvent(last'))]_vars

\* C15 witness: do_send failed for one subscriber of a typing command's
\* channel, whose mailbox is empty, and the other subscriber has the event.
C15_Witness ==
    /\ last.op = "StartTyping"
    /\ last.res = "Ok"
    /\ last.failed = {"s1"}
    /\ sinks["s1"] = <<>>
    /\ "s2" \in ChannelSubscribers(last.key)
    /\ sinks["s2"] = <<FanoutEvent(last)>>

\* SpecSend with the actor system running on: some enabled handler step is
\* eventually taken.
SpecSendLive == SpecSend /\ WF_vars(NextSend)

\* SendMessage t has been accepted: the store has the message and the caller
\* has Ok with its id.
Accepted(t) ==
    stasks[t].pc = "done" /\ stasks[t].res = "Ok" /\ stasks[t].returned

\* The message of send task t has been handed to the message server:
\* NewMessageForIndex for it has been taken up by the add handler.
IndexHanded(t) ==
    /\ <<"add", stasks[t].id>> \in DOMAIN itasks
    /\ itasks[<<"add", stasks[t].id>>].pc # "idle"

\* C17: every message accepted by the SendMessage command is, sooner or
\* later, handed to the channel's message index through add.
C17_AcceptedIsIndexed ==
    \A t \in 1..MaxSends : [](Accepted(t) => <>IndexHanded(t))

\* The hub snapshot v makes SendMessage fail a permission check: the caller
\* is not a member, holds no Write permission on the channel, or is muted.
Refused(v) == ~v.member \/ ~has_channel_permission(v) \/ v.muted

\* The errors of the permission checks of SendMessage.
SendRefusals == {"MemberNotFound", "MissingChannelPermission(Write)", "Muted"}

\* C18: a SendMessage refused by a permission check (not a member, no channel
\* Write, muted) has no effect but its answer: no step of its handler appends
\* to the store, hands anything to the index or delivers an event to any
\* session, and it ends with the error returned to the caller and no message
\* id.
C18_RejectedSendHasNoEffect ==
    [][\A t \in 1..MaxSends :
          (stasks'[t] # stasks[t] /\ Refused(stasks'[t].view))
          => /\ store' = store
             /\ sinks' = sinks
             /\ itasks' = itasks /\ notify' = notify
             /\ index_writers' = index_writers /\ index_docs' = index_docs
             /\ stasks'[t].pc \in {"check", "store", "done"}
             /\ stasks'[t].pc = "done" =>
                   /\ stasks'[t].res \in SendRefusals
                   /\ stasks'[t].returned
                   /\ stasks'[t].id = 0]_vars

\* C18 witness: with a session subscribed to the channel, one SendMessage was
\* refused with MemberNotFound and another with the missing Write permission;
\* the store is empty and no session has been handed anything.
C18_Witness ==
    \E t, u \in 1..MaxSends :
        /\ stasks[t].pc = "done" /\ stasks[t].res = "MemberNotFound"
        /\ stasks[u].pc = "done" /\ stasks[u].res = "MissingChannelPermission(Write)"
        /\ \E s \in Sessions : RevHasChannel(s, <<stasks[t].hub, stasks[t].channel>>)
        /\ store[<<stasks[t].hub, stasks[t].channel>>] = 0
        /\ \A s \in Sessions : sinks[s] = <<>>

\* C20: unsubscribe is idempotent and tolerant of missing edges.  An
\* UnsubscribeHub or UnsubscribeChannel answers without an error; when the
\* edge it names is in neither map, when no map references the session, or
\* when the same unsubscribe was the command handled just before, it leaves
\* the registry as it was.
C20_UnsubscribeIdempotent ==
    [][/\ \A h \in Hubs, addr \in Sessions :
            (/\ last'.op = "UnsubscribeHub"
             /\ last'.hub = h /\ last'.addr = addr)
            => /\ "res" \notin DOMAIN last'
               /\ ~FwdHasHub(addr, h)' /\ ~RevHasHub(addr, h)'
               /\ (\/ ~FwdHasHub(addr, h) /\ ~RevHasHub(addr, h)
                   \/ Unreferenced(addr)
                   \/ last = last')
                  => registry' = registry
       /\ \A k \in ChanKeys, addr \in Sessions :
            (/\ last'.op = "UnsubscribeChannel"
             /\ last'.key = k /\ last'.addr = addr)
            => /\ "res" \notin DOMAIN last'
               /\ ~FwdHasChannel(addr, k)' /\ ~RevHasChannel(addr, k)'
               /\ (\/ ~FwdHasChannel(addr, k) /\ ~RevHasChannel(addr, k)
                   \/ Unreferenced(addr)
                   \/ last = last')
                  => registry' = registry]_vars

\* C20 witness: UnsubscribeChannel was handled for a session that no map
\* references, on a channel whose subscriber set holds another session, and
\* that session is still subscribed both ways.
C20_Witness ==
    /\ last.op = "UnsubscribeChannel"
    /\ Unreferenced(last.addr)
    /\ \E s \in Sessions \ {last.addr} :
          /\ FwdHasChannel(s, last.key) /\ RevHasChannel(s, last.key)
          /\ \E h \in Hubs : FwdHasHub(s, h) /\ RevHasHub(s, h)

\* C21: recovery-log round trip.  Every write of the log file leaves exactly
\* IdBytes bytes that are the little-endian encoding of the id written, so
\* that the id setup_index reads back is the id that was written, whatever
\* the byte order of the build target.
C21_LogRoundTrip ==
    [][\A id \in 1..MaxMsgs :
          (recovery_log' # recovery_log /\ recovery_log' = to_ne_bytes(id))
          => /\ Len(recovery_log') = IdBytes
             /\ recovery_log' = to_le_bytes(id)
             /\ from_le_bytes(recovery_log') = id]_vars

\* ================================================================= lib.rs
\* is_valid_username of lib.rs, applied to names given as sequences of
\* characters.  An ASCII character is the string of that character, any
\* other character the string of its code point.

\* Bounds on the names tried: any characters at the front, then a run of one
\* letter.
MaxPrefix == 2      \* leading characters of a name drawn freely
MaxPad    == 33     \* longest run of the letter that follows them

\* static NAME_ALLOWED_CHARS
NAME_ALLOWED_CHARS ==
    {" ", ".", ",", "_", "-", "0", "1", "2", "3", "4", "5", "6", "7", "8",
     "9", "a", "b", "c", "d", "e", "f", "g", "h", "i", "j", "k", "l", "m",
     "n", "o", "p", "q", "r", "s", "t", "u", "v", "w", "x", "y", "z", "A",
     "B", "C", "D", "E", "F", "G", "H", "I", "J", "K", "L", "M", "N", "O",
     "P", "Q", "R", "S", "T", "U", "V", "W", "X", "Y", "Z"}

\* Characters outside the ASCII range, with the bytes UTF-8 takes for them.
WideChars == {"U+00E9", "U+20AC"}
\* char::len_utf8
len_utf8(c) == IF c = "U+00E9" THEN 2 ELSE IF c = "U+20AC" THEN 3 ELSE 1

\* str::len: the length of the name in bytes.
RECURSIVE str_len(_)
str_len(s) == IF s = <<>> THEN 0 ELSE len_utf8(Head(s)) + str_len(Tail(s))

\* Mutant: a name of 32 bytes is let through.
is_valid_username_Upto32(n) ==
    /\ str_len(n) > 0
    /\ str_len(n) < 33
    /\ \A i \in DOMAIN n : n[i] \in NAME_ALLOWED_CHARS

\* name.len() > 0 && name.len() < 32
\*     && name.chars().all(|c| NAME_ALLOWED_CHARS.contains(c))
is_valid_username(n) ==
    /\ str_len(n) > 0
    /\ str_len(n) < 32
    /\ \A i \in DOMAIN n : n[i] \in NAME_ALLOWED_CHARS

\* The characters names are made of here: some of each allowed kind, two
\* ASCII characters that are not allowed and the wide ones.
NameChars == {"a", "Z", "0", " ", ".", ",", "_", "-", "!", "@"} \cup WideChars
PadChar == "x"

\* Sequences over S of length at most n.
SeqUpTo(S, n) == UNION { [1..k -> S] : k \in 0..n }

\* A run of n copies of c.
Run(c, n) == [i \in 1..n |-> c]

\* The names tried.
NameInputs ==
    { p \o Run(PadChar, n) : p \in SeqUpTo(NameChars, MaxPrefix), n \in 0..MaxPad }

\* A caller has a name to validate.
InitName ==
    /\ session_file = EmptyMap
    /\ Construct
    /\ big_endian = FALSE
    /\ name \in NameInputs

\* is_valid_username(name) is called and returns.
CheckUsername ==
    /\ valid_username = {}
    /\ valid_username' = {is_valid_username(name)}
    /\ UNCHANGED <<registry, last, rtasks, store, sendvars, idxvars, name,
                   hub_updates, api_calls, lqueue, mapvars, authvars>>

NextName == CheckUsername

SpecName == InitName /\ [][NextName]_vars

\* The characters the specification allows in a name.
UpperCase == {"A", "B", "C", "D", "E", "F", "G", "H", "I", "J", "K", "L", "M",
              "N", "O", "P", "Q", "R", "S", "T", "U", "V", "W", "X", "Y", "Z"}
LowerCase == {"a", "b", "c", "d", "e", "f", "g", "h", "i", "j", "k", "l", "m",
              "n", "o", "p", "q", "r", "s", "t", "u", "v", "w", "x", "y", "z"}
Digits == {"0", "1", "2", "3", "4", "5", "6", "7", "8", "9"}
Punctuation == {" ", ".", "_", ",", "-"}

\* C22: is_valid_username(name) is true exactly when name has between 1 and
\* 31 characters and each of them is a letter, a digit, a space or one of
\* '.', '_', ',', '-'.
C22_ValidUsername ==
    \A r \in valid_username :
        r = (/\ Len(name) \in 1..31
             /\ \A i \in DOMAIN name :
                    name[i] \in UpperCase \cup LowerCase \cup Digits \cup Punctuation)

\* C22 witness: a name of 31 characters with a space and a '-' in it was
\* found valid.
C22_Witness ==
    /\ valid_username = {TRUE}
    /\ Len(name) = 31
    /\ \E i, j \in DOMAIN name : name[i] = " " /\ name[j] = "-"

\* ============================================================== httpapi.rs
\* The hub-mutating routes of httpapi.rs.  Each answers through no_content!
\* or string_response! with a hub and a HubUpdateType, which tell the server
\* of the update with update_hub! when the operation of api.rs succeeded.

MaxApiCalls == 2    \* hub-mutating HTTP requests handled in a run

\* What the operation of api.rs behind a route can answer.
ApiResults == {"Ok", "HubNotFound", "MemberNotFound", "MissingHubPermission"}

\* Mutant: update_hub! runs whatever the operation answered.
update_hub_Always(q, hub, res) == Append(q, HubUpdated(hub))

\* no_content!/string_response!: $op.and_then(|r| { update_hub!(..); Ok(r) }),
\* where update_hub! is srv.do_send(ServerNotification::HubUpdated(hub, ..)).
update_hub(q, hub, res) == IF res = "Ok" THEN Append(q, HubUpdated(hub)) ELSE q

\* One hub-mutating route is handled: the operation of api.rs answers res,
\* and the route answers the same to its caller.
HubRoute(route, hub, res) ==
    /\ api_calls < MaxApiCalls
    /\ api_calls' = api_calls + 1
    /\ hub_updates' = update_hub(hub_updates, hub, res)
    /\ last' = [op |-> "HubRoute", route |-> route, hub |-> hub, res |-> res]
    /\ UNCHANGED <<registry, rtasks, store, sendvars, idxvars, name, valid_username,
                   lqueue, mapvars, authvars>>

\* Handler<ServerNotification>, HubUpdated, for the notification at the head
\* of the server's mailbox: send_hub to the hub's subscribers of that moment.
HandleHubUpdated(closed) ==
    /\ hub_updates # <<>>
    /\ sinks' = send_hub(sinks, subscribed_hubs, Head(hub_updates),
                         Head(hub_updates).hub, closed)
    /\ hub_updates' = Tail(hub_updates)
    /\ last' = [op |-> "HubUpdated", hub |-> Head(hub_updates).hub, res |-> "Ok",
                failed |-> HubSubscribers(Head(hub_updates).hub) \cap closed]
    /\ UNCHANGED <<registry, rtasks, store, stasks, notify, idxvars, name,
                   valid_username, api_calls, lqueue, mapvars, authvars>>

\* The routes tried: one that answers through no_content!, one through
\* string_response!, and create_channel, which leaves with `?` on an error.
\* The other routes that name a HubUpdateType (delete_hub,
\* change_hub_description, join_hub, leave_hub, ban_user, unban_user,
\* mute_user, unmute_user, change_nickname, rename_channel,
\* change_channel_description, delete_channel, set_user_hub_permission,
\* set_user_channel_permission) are written as one of the first two.
ApiRoutes == {"kick_user", "rename_hub", "create_channel"}

NextApi ==
    \/ \E h \in Hubs, addr \in Sessions, v \in RouteSubscribeViews :
           SubscribeHub(h, addr, v)
    \/ \E h \in Hubs, addr \in Sessions : UnsubscribeHub(h, addr)
    \/ \E r \in ApiRoutes, h \in Hubs, res \in ApiResults : HubRoute(r, h, res)
    \/ \E closed \in RouteClosed : HandleHubUpdated(closed)

SpecApi == Init /\ [][NextApi]_vars

\* The server actor keeps taking notifications from its mailbox.
SpecApiLive == SpecApi /\ WF_vars(\E closed \in RouteClosed : HandleHubUpdated(closed))

\* C23: a hub-mutating route emits HubUpdated for its hub exactly when its
\* operation succeeded: on Ok one notification for that hub joins the
\* server's mailbox, on an error none does and no session is handed anything.
\* Sessions are handed a HubUpdated only from that mailbox, each subscriber of
\* the hub whose mailbox is open gets it, and every emitted notification is
\* handled in the end.
C23_HubUpdatedOnSuccess ==
    /\ [][/\ (last' # last /\ last'.op = "HubRoute")
             => /\ sinks' = sinks
                /\ hub_updates' = IF last'.res = "Ok"
                                  THEN Append(hub_updates, HubUpdated(last'.hub))
                                  ELSE hub_updates
          /\ sinks' # sinks
             => /\ hub_updates # <<>> /\ hub_updates' = Tail(hub_updates)
                /\ \A s \in Sessions :
                      sinks'[s] =
                          IF RevHasHub(s, Head(hub_updates).hub) /\ s \notin last'.failed
                          THEN Append(sinks[s], Head(hub_updates))
                          ELSE sinks[s]
          /\ hub_updates' # hub_updates
             => last'.op \in {"HubRoute", "HubUpdated"}]_vars
    /\ []<>(hub_updates = <<>>)

\* C23 witness: with both sessions subscribed to a hub, one route succeeded
\* and one failed on that hub; the subscribers have the one HubUpdated each
\* and nothing is left in the server's mailbox.
C23_Witness ==
    /\ api_calls = 2
    /\ last.op = "HubUpdated" /\ last.failed = {}
    /\ hub_updates = <<>>
    /\ \A s \in Sessions : RevHasHub(s, "h1") /\ sinks[s] = <<HubUpdated("h1")>>

C25_UnsubscribeHubFrame ==
    [][\A h \in Hubs, addr \in Sessions :
          (/\ last'.op = "UnsubscribeHub"
           /\ last'.hub = h /\ last'.addr = addr)
          => /\ subscribed_channels' = subscribed_channels
             /\ DOMAIN subscribed' = DOMAIN subscribed
             /\ \A s \in DOMAIN subscribed :
                   /\ subscribed'[s].channels = subscribed[s].channels
                   /\ subscribed'[s].hubs =
                         IF s = addr THEN subscribed[s].hubs \ {h}
                         ELSE subscribed[s].hubs
             /\ DOMAIN subscribed_hubs' = DOMAIN subscribed_hubs
             /\ \A g \in DOMAIN subscribed_hubs :
                   subscribed_hubs'[g] =
                       IF g = h THEN subscribed_hubs[g] \ {addr}
                       ELSE subscribed_hubs[g]]_vars

\* C25 witness: a session has just left a hub it was subscribed to; it is
\* still subscribed to a channel of that hub and to the other hub, and the
\* other session is still subscribed to the hub that was left.
C25_Witness ==
    /\ last.op = "UnsubscribeHub"
    /\ ~FwdHasHub(last.addr, last.hub) /\ ~RevHasHub(last.addr, last.hub)
    /\ \E k \in ChanKeys :
          /\ k[1] = last.hub
          /\ FwdHasChannel(last.addr, k) /\ RevHasChannel(last.addr, k)
    /\ \E g \in Hubs \ {last.hub} : FwdHasHub(last.addr, g) /\ RevHasHub(last.addr, g)
    /\ \E s \in Sessions \ {last.addr} :
          FwdHasHub(s, last.hub) /\ RevHasHub(s, last.hub)

\* ============================================================== SpecGone
\* The registry handler futures of SpecConc together with the fan-out of
\* HubUpdated notifications: send_hub reads the hub's subscriber set when it
\* runs and calls do_send for every member without yielding.
NextGone ==
    \/ NextConc
    \/ \E h \in ConcHubs, closed \in RouteClosed : NotifyHubUpdated(h, closed)

SpecGone == Init /\ [][NextGone]_vars

\* Disconnect(s) has completed and every subscribe of s had been taken from
\* the server's mailbox before that Disconnect was.
Gone(s) ==
    \E d \in 1..MaxTasks :
        /\ rtasks[d].op = "Disconnect" /\ rtasks[d].addr = s
        /\ rtasks[d].pc = "done"
        /\ \A t \in (d + 1)..MaxTasks :
              ~(/\ rtasks[t].addr = s
                /\ rtasks[t].op \in {"SubscribeHub", "SubscribeChannel"})

\* C26: once Disconnect(S) has completed, no fan-out hands a further event to
\* S.
C26_NoDeliveryAfterDisconnect ==
    [][\A s \in Sessions : Gone(s) => sinks'[s] = sinks[s]]_vars

\* ============================================================= SpecSetup
\* setup_index taken apart at its .await points.  The handler futures of
\* SpecIndex run here with the first access to the index in five steps: the
\* writer is created, the log is replayed into it, the index is entered in
\* indexes, the reader in index_readers, the writer in index_writers.
\* Between the first and the last the writer lives in the future alone.

\* The futures inside setup_index that own the writer they created.
SetupOwners ==
    { t \in IndexTasks :
        itasks[t].pc \in {"a_replay", "s_replay", "a_ins", "s_ins", "a_insr", "s_insr",
                          "a_insw", "s_insw"} }

\* index_readers.contains_key(&key): setup_index enters the reader before the
\* writer.
ReaderOpen == IdxKey \in index_readers

\* A writer of the index directory is alive: tantivy holds the directory's
\* writer lock for it.
WriterAlive == IdxKey \in DOMAIN index_writers \/ SetupOwners # {}

\* get_writer: !index_writers.contains_key(&key); get_reader:
\* !index_readers.contains_key(&key).
SetupCheck(t) ==
    /\ itasks[t].pc \in {"a_check", "s_check"}
    /\ itasks' = [itasks EXCEPT ![t].pc =
           IF t[1] = "add"
           THEN (IF IdxKey \in DOMAIN index_writers THEN "a_lock" ELSE "a_setup")
           ELSE (IF ReaderOpen THEN "s_search" ELSE "s_setup")]
    /\ UNCHANGED <<registry, last, rtasks, store, sendvars, restvars, big_endian,
                   stopped, faults, recovery_log, index_docs, index_writers,
                   pending_messages, crashes, precrash, add_returns>>

\* Mutant: index.writer() succeeds while another writer of the directory is
\* alive.
SetupWriter_NoDirectoryLock(t) ==
    /\ itasks[t].pc \in {"a_setup", "s_setup"}
    /\ itasks' = [itasks EXCEPT ![t].pc =
                      IF t[1] = "add" THEN "a_replay" ELSE "s_replay"]
    /\ UNCHANGED <<registry, last, rtasks, store, sendvars, restvars, big_endian,
                   stopped, faults, recovery_log, index_docs, index_writers,
                   pending_messages, crashes, precrash, add_returns>>

\* Mutant: setup_index enters the index in indexes as soon as it is opened,
\* before the log is replayed.
SetupWriter_RegisterEarly(t) ==
    /\ itasks[t].pc \in {"a_setup", "s_setup"}
    /\ IF WriterAlive
       THEN /\ Return(t, "CreateWriter")
            /\ UNCHANGED indexes
       ELSE /\ itasks' = [itasks EXCEPT ![t].pc =
                              IF t[1] = "add" THEN "a_replay" ELSE "s_replay"]
            /\ indexes' = indexes \cup {IdxKey}
            /\ UNCHANGED add_returns
    /\ UNCHANGED <<registry, last, rtasks, store, sendvars, outervars, index_readers,
                   big_endian, stopped, faults, recovery_log, index_docs,
                   index_writers, pending_messages, crashes, precrash>>

\* Index::open_or_create, the reader, index.writer(50_000_000) mapped to
\* IndexError::CreateWriter.
SetupWriter(t) ==
    /\ itasks[t].pc \in {"a_setup", "s_setup"}
    /\ IF WriterAlive
       THEN Return(t, "CreateWriter")
       ELSE /\ itasks' = [itasks EXCEPT ![t].pc =
                              IF t[1] = "add" THEN "a_replay" ELSE "s_replay"]
            /\ UNCHANGED add_returns
    /\ UNCHANGED <<registry, last, rtasks, store, sendvars, restvars, big_endian,
                   stopped, faults, recovery_log, index_docs, index_writers,
                   pending_messages, crashes, precrash>>

\* if log_path.is_file() { .. add_message_to_writer for the messages after
\* the logged id, writer.commit(), log_last_message of the last one }
SetupReplay(t) ==
    /\ itasks[t].pc \in {"a_replay", "s_replay"}
    /\ index_docs' = Commit(index_docs, AddDocs(NoDocs, ReplayIds))
    /\ recovery_log' = IF ReplayIds # {}
                       THEN to_ne_bytes(LastOf(ReplayIds)) ELSE recovery_log
    /\ itasks' = [itasks EXCEPT ![t].pc = IF t[1] = "add" THEN "a_ins" ELSE "s_ins"]
    /\ UNCHANGED <<registry, last, rtasks, store, sendvars, restvars, big_endian,
                   stopped, faults, index_writers, pending_messages, crashes,
                   precrash, add_returns>>

\* indexes.write().await.insert(key.clone(), Arc::new(index))
SetupInsertIndex(t) ==
    /\ itasks[t].pc \in {"a_ins", "s_ins"}
    /\ indexes' = indexes \cup {IdxKey}
    /\ itasks' = [itasks EXCEPT ![t].pc = IF t[1] = "add" THEN "a_insr" ELSE "s_insr"]
    /\ UNCHANGED <<registry, last, rtasks, store, sendvars, outervars, index_readers,
                   big_endian, stopped, faults, recovery_log, index_docs,
                   index_writers, pending_messages, crashes, precrash, add_returns>>

\* index_readers.write().await.insert(key.clone(), Arc::new(reader))
SetupInsertReader(t) ==
    /\ itasks[t].pc \in {"a_insr", "s_insr"}
    /\ index_readers' = index_readers \cup {IdxKey}
    /\ itasks' = [itasks EXCEPT ![t].pc = IF t[1] = "add" THEN "a_insw" ELSE "s_insw"]
    /\ UNCHANGED <<registry, last, rtasks, store, sendvars, outervars, indexes,
                   big_endian, stopped, faults, recovery_log, index_docs,
                   index_writers, pending_messages, crashes, precrash, add_returns>>

\* index_writers.write().await.insert(..); Ok(()), and back in get_writer or
\* get_reader, which finds the entry.
SetupInsertWriter(t) ==
    /\ itasks[t].pc \in {"a_insw", "s_insw"}
    /\ index_writers' = MapPut(index_writers, IdxKey, NoDocs)
    /\ itasks' = [itasks EXCEPT ![t].pc = IF t[1] = "add" THEN "a_lock" ELSE "s_search"]
    /\ UNCHANGED <<registry, last, rtasks, store, sendvars, restvars, big_endian,
                   stopped, faults, recovery_log, index_docs, pending_messages,
                   crashes, precrash, add_returns>>

\* SpecSetup issues the adds of the first two messages and one search.
SetupMsgs == {1, 2}
SetupSearches == {1}

NextSetup ==
    \/ IndexStore
    \/ \E m \in SetupMsgs : AddIssue(m)
    \/ \E n \in SetupSearches : SearchIssue(n)
    \/ \E t \in IndexTasks : SetupCheck(t)
    \/ \E t \in IndexTasks : SetupWriter(t)
    \/ \E t \in IndexTasks : SetupReplay(t)
    \/ \E t \in IndexTasks : SetupInsertIndex(t)
    \/ \E t \in IndexTasks : SetupInsertReader(t)
    \/ \E t \in IndexTasks : SetupInsertWriter(t)
    \/ \E t \in AddTasks : AddLock(t)
    \/ \E t \in AddTasks : AddRead(t)
    \/ \E t \in AddTasks : AddLog(t)
    \/ \E t \in IndexTasks : PendingWrite(t)
    \/ \E t \in SearchTasks : SearchRead(t)
    \/ \E t \in SearchTasks : SearchCommit(t)
    \/ \E t \in SearchTasks : SearchLog(t)
    \/ \E t \in SearchTasks : SearchQuery(t)
    \/ Crash

SpecSetup == Init /\ [][NextSetup]_vars

\* The futures that are at work on the index's writer: replaying into the
\* writer they created, or holding the Mutex of the registered writer.
WriterUsers ==
    { t \in IndexTasks : itasks[t].pc \in {"a_replay", "s_replay", "a_read", "a_log"} }

\* C27: single-writer discipline.  At no instant are two futures at work on
\* the index's writer, and every step that adds a document to the writer or
\* commits it is the step of one future while no other future is at work on
\* the writer.
C27_SingleWriter ==
    /\ [](Cardinality(WriterUsers) <= 1)
    /\ [][(\/ index_docs' # index_docs
           \/ /\ IdxKey \in DOMAIN index_writers
              /\ IdxKey \in DOMAIN index_writers'
              /\ index_writers'[IdxKey] # index_writers[IdxKey])
          => LET stepped == { t \in IndexTasks : itasks'[t] # itasks[t] }
             IN  /\ Cardinality(stepped) = 1
                 /\ WriterUsers \ stepped = {}]_vars

\* C27 witness: an add holds the writer's Mutex with its document in the
\* writer while a search that found pending_count above 0 waits for the Mutex
\* to commit.
C27_Witness ==
    /\ \E t \in AddTasks : itasks[t].pc \in {"a_read", "a_log"}
    /\ \E t \in SearchTasks : itasks[t].pc = "s_commit"
    /\ \E m \in 1..MaxMsgs : index_writers[IdxKey][m] >= 1

\* The futures inside setup_index.
InSetup ==
    { t \in IndexTasks :
        itasks[t].pc \in {"a_setup", "s_setup", "a_replay", "s_replay",
                          "a_ins", "s_ins", "a_insr", "s_insr", "a_insw", "s_insw"} }

\* C28: lazy creation and reuse.  A first access enters setup_index only
\* while no other future is inside it, so the setup of the (hub, channel)
\* runs once also for a concurrent first add and first search, and no
\* operation fails on the writer of a setup that another one ran.
C28_SetupOnce ==
    [][\A t \in IndexTasks :
          /\ (/\ itasks[t].pc \in {"a_check", "s_check"}
              /\ itasks'[t].pc \in {"a_setup", "s_setup"})
             => InSetup = {}
          /\ (/\ itasks[t].pc # "done"
              /\ itasks'[t].pc = "done")
             => itasks'[t].res # "CreateWriter"]_vars

\* ============================================================== SpecLock
\* The registry handlers and the fan-outs as futures that yield at every
\* lock acquisition.  tokio's RwLock is fair: a future that asks for a lock
\* joins the lock's queue and is granted the lock when it is first in the
\* queue and the lock's holders allow its mode.

\* Handler futures of SpecLock.
MaxLockTasks == 2
LockTasks == 1..MaxLockTasks

\* What no step of SpecLock changes.
lockframe == <<last, store, stasks, notify, idxvars, name, valid_username,
               hub_updates, api_calls, mapvars, authvars>>

LockFanouts == {"send_hub", "send_channel"}
LockHubOps == {"SubscribeHub", "UnsubscribeHub", "send_hub"}
LockSubscribes == {"SubscribeHub", "SubscribeChannel"}
LockUnsubscribes == {"UnsubscribeHub", "UnsubscribeChannel"}

\* send_hub and send_channel take .read(), every handler takes .write().
LockMode(t) == IF rtasks[t].op \in LockFanouts THEN "read" ELSE "write"

\* The reverse map of a future's command, and the subscriber set in it.
RevLock(t) == IF rtasks[t].op \in LockHubOps THEN HubsLock ELSE ChannelsLock
SetLock(t) ==
    IF rtasks[t].op \in LockHubOps
    THEN HubSetLock(rtasks[t].hub)
    ELSE ChannelSetLock(<<rtasks[t].hub, rtasks[t].channel>>)

\* The guards a future holds at each of its awaits.  Disconnect keeps the
\* guard of subscribed.write() (a temporary of the if-let scrutinee) and the
\* guard of the removed entry to the end of the if-let block, and drops the
\* guard of subscribed_channels before it takes subscribed_hubs.
LockHolds(t) ==
    LET pc == rtasks[t].pc
        entry == EntryLock(rtasks[t].addr)
    IN  IF pc = "l_entry" THEN {SubscribedLock}
        ELSE IF pc = "l_sc" THEN {SubscribedLock, entry}
        ELSE IF pc = "l_cset" THEN {SubscribedLock, entry, ChannelsLock}
        ELSE IF pc = "l_sh" THEN {SubscribedLock, entry}
        ELSE IF pc = "l_hset" THEN {SubscribedLock, entry, HubsLock}
        ELSE IF pc = "l_set" THEN {RevLock(t)}
        ELSE {}

\* The lock a future waits for, if any.
LockWants(t) == { l \in LockNames : \E i \in DOMAIN lqueue[l] : lqueue[l][i] = t }

\* RwLock::read / RwLock::write return the guard.
LockGranted(t, l) ==
    /\ lqueue[l] # <<>>
    /\ Head(lqueue[l]) = t
    /\ \A u \in LockTasks :
          l \in LockHolds(u) => (LockMode(t) = "read" /\ LockMode(u) = "read")

\* The future has the guard of `got` and asks for `next`.
LockPass(t, got, next) ==
    [l \in LockNames |->
        LET q == IF l = got THEN Tail(lqueue[l]) ELSE lqueue[l]
        IN  IF l = next THEN Append(q, t) ELSE q]

\* The future has the guard of `got` and asks for no further lock.
LockLeave(got) == [lqueue EXCEPT ![got] = Tail(@)]

\* The actor takes a SubscribeHub or SubscribeChannel from its mailbox;
\* Hub::load(..).await.and_then(..)? runs before any lock is asked for.
LockIssueSubscribe(t, op, addr, hub, channel, v) ==
    LET res == IF op = "SubscribeHub"
               THEN SubscribeHubCheck(v) ELSE ChannelCheck(v, "Read")
    IN
    /\ rtasks[t].pc = "idle"
    /\ \A u \in 1..(t - 1) : rtasks[u].pc # "idle"
    /\ rtasks' = [rtasks EXCEPT ![t] =
           [IdleTask EXCEPT !.op = op, !.addr = addr, !.hub = hub,
                            !.channel = channel, !.res = res,
                            !.pc = IF res = "Ok" THEN "l_sub" ELSE "done"]]
    /\ lqueue' = IF res = "Ok"
                 THEN [lqueue EXCEPT ![SubscribedLock] = Append(@, t)]
                 ELSE lqueue
    /\ UNCHANGED <<registry, sinks, lockframe>>

\* The actor takes an UnsubscribeHub, UnsubscribeChannel or Disconnect from
\* its mailbox: subscribed.write().await
LockIssue(t, op, addr, hub, channel) ==
    /\ rtasks[t].pc = "idle"
    /\ \A u \in 1..(t - 1) : rtasks[u].pc # "idle"
    /\ rtasks' = [rtasks EXCEPT ![t] =
           [IdleTask EXCEPT !.op = op, !.addr = addr, !.hub = hub,
                            !.channel = channel, !.pc = "l_sub"]]
    /\ lqueue' = [lqueue EXCEPT ![SubscribedLock] = Append(@, t)]
    /\ UNCHANGED <<registry, sinks, lockframe>>

\* A handler calls send_hub or send_channel: subscribed_hubs.read().await or
\* subscribed_channels.read().await
LockIssueFanout(t, op, hub, channel) ==
    /\ rtasks[t].pc = "idle"
    /\ \A u \in 1..(t - 1) : rtasks[u].pc # "idle"
    /\ rtasks' = [rtasks EXCEPT ![t] =
           [IdleTask EXCEPT !.op = op, !.hub = hub, !.channel = channel,
                            !.pc = "l_rev"]]
    /\ lqueue' = [lqueue EXCEPT
                     ![IF op = "send_hub" THEN HubsLock ELSE ChannelsLock] =
                         Append(@, t)]
    /\ UNCHANGED <<registry, sinks, lockframe>>

\* Subscribe: subscribed.write().await.entry(addr).or_default().write().await
\* Unsubscribe: if let Some(subs) = subscribed.write().await.get(&addr) {
\* subs.write().await
LockSubscribed(t) ==
    /\ rtasks[t].pc = "l_sub"
    /\ rtasks[t].op \in LockSubscribes \cup LockUnsubscribes
    /\ LockGranted(t, SubscribedLock)
    /\ IF rtasks[t].op \in LockSubscribes \/ rtasks[t].addr \in DOMAIN subscribed
       THEN /\ rtasks' = [rtasks EXCEPT ![t].pc = "l_entry"]
            /\ lqueue' = LockPass(t, SubscribedLock, EntryLock(rtasks[t].addr))
       ELSE /\ rtasks' = [rtasks EXCEPT ![t].pc = "l_rev"]
            /\ lqueue' = LockPass(t, SubscribedLock, RevLock(t))
    /\ subscribed' = IF rtasks[t].op \in LockSubscribes
                        /\ rtasks[t].addr \notin DOMAIN subscribed
                     THEN MapPut(subscribed, rtasks[t].addr, NoEntry)
                     ELSE subscribed
    /\ UNCHANGED <<subscribed_channels, subscribed_hubs, sinks, lockframe>>

\* The entry's guard: .1.insert(hub_id) / .0.insert(key) / .1.remove(..) /
\* .0.remove(..); both guards are dropped at the end of the statement and the
\* future asks for the reverse map.
LockEntry(t) ==
    LET op == rtasks[t].op
        addr == rtasks[t].addr
        key == <<rtasks[t].hub, rtasks[t].channel>>
    IN
    /\ rtasks[t].pc = "l_entry"
    /\ op \in LockSubscribes \cup LockUnsubscribes
    /\ LockGranted(t, EntryLock(addr))
    /\ subscribed' =
         IF op = "SubscribeHub" THEN FwdInsertHub(subscribed, addr, rtasks[t].hub)
         ELSE IF op = "SubscribeChannel" THEN FwdInsertChannel(subscribed, addr, key)
         ELSE IF op = "UnsubscribeHub" THEN FwdRemoveHub(subscribed, addr, rtasks[t].hub)
         ELSE FwdRemoveChannel(subscribed, addr, key)
    /\ rtasks' = [rtasks EXCEPT ![t].pc = "l_rev"]
    /\ lqueue' = LockPass(t, EntryLock(addr), RevLock(t))
    /\ UNCHANGED <<subscribed_channels, subscribed_hubs, sinks, lockframe>>

\* Subscribe: subscribed_hubs.write().await.entry(hub_id).or_default()
\* .write().await; Unsubscribe: if let Some(subs) = subscribed_hubs.write()
\* .await.get(&hub_id) { subs.write().await; the same for channels.
LockReverse(t) ==
    LET op == rtasks[t].op
        key == <<rtasks[t].hub, rtasks[t].channel>>
        present == IF op \in LockHubOps
                   THEN rtasks[t].hub \in DOMAIN subscribed_hubs
                   ELSE key \in DOMAIN subscribed_channels
    IN
    /\ rtasks[t].pc = "l_rev"
    /\ op \in LockSubscribes \cup LockUnsubscribes
    /\ LockGranted(t, RevLock(t))
    /\ IF op \in LockSubscribes \/ present
       THEN /\ rtasks' = [rtasks EXCEPT ![t].pc = "l_set"]
            /\ lqueue' = LockPass(t, RevLock(t), SetLock(t))
       ELSE /\ rtasks' = [rtasks EXCEPT ![t].pc = "done"]
            /\ lqueue' = LockLeave(RevLock(t))
    /\ subscribed_hubs' =
         IF op = "SubscribeHub" /\ ~present
         THEN MapPut(subscribed_hubs, rtasks[t].hub, {}) ELSE subscribed_hubs
    /\ subscribed_channels' =
         IF op = "SubscribeChannel" /\ ~present
         THEN MapPut(subscribed_channels, key, {}) ELSE subscribed_channels
    /\ UNCHANGED <<subscribed, sinks, lockframe>>

\* The subscriber set's guard: insert(addr) / remove(&addr); the handler
\* returns.
LockSet(t) ==
    LET op == rtasks[t].op
        addr == rtasks[t].addr
        key == <<rtasks[t].hub, rtasks[t].channel>>
    IN
    /\ rtasks[t].pc = "l_set"
    /\ op \in LockSubscribes \cup LockUnsubscribes
    /\ LockGranted(t, SetLock(t))
    /\ subscribed_hubs' =
         IF op = "SubscribeHub" THEN RevInsertHub(subscribed_hubs, rtasks[t].hub, addr)
         ELSE IF op = "UnsubscribeHub"
              THEN RevRemoveHub(subscribed_hubs, rtasks[t].hub, addr)
         ELSE subscribed_hubs
    /\ subscribed_channels' =
         IF op = "SubscribeChannel" THEN RevInsertChannel(subscribed_channels, key, addr)
         ELSE IF op = "UnsubscribeChannel"
              THEN RevRemoveChannel(subscribed_channels, key, addr)
         ELSE subscribed_channels
    /\ rtasks' = [rtasks EXCEPT ![t].pc = "done"]
    /\ lqueue' = LockLeave(SetLock(t))
    /\ UNCHANGED <<subscribed, sinks, lockframe>>

\* Mutant: the `subscribed` of `let subscribed = subscribed.write().await`
\* names the map again, not the entry the if-let has just bound.
LockDisconnectRemove_MapAgain(t) ==
    /\ rtasks[t].pc = "l_sub"
    /\ rtasks[t].op = "Disconnect"
    /\ LockGranted(t, SubscribedLock)
    /\ IF rtasks[t].addr \in DOMAIN subscribed
       THEN /\ subscribed' = MapRemove(subscribed, rtasks[t].addr)
            /\ rtasks' = [rtasks EXCEPT ![t].entry = subscribed[rtasks[t].addr],
                                        ![t].pc = "l_entry"]
            /\ lqueue' = LockPass(t, SubscribedLock, SubscribedLock)
       ELSE /\ UNCHANGED subscribed
            /\ rtasks' = [rtasks EXCEPT ![t].pc = "done"]
            /\ lqueue' = LockLeave(SubscribedLock)
    /\ UNCHANGED <<subscribed_channels, subscribed_hubs, sinks, lockframe>>

\* Disconnect: if let Some(subscribed) = subscribed.write().await
\* .remove(&msg.addr) { let subscribed = subscribed.write().await;
LockDisconnectRemove(t) ==
    /\ rtasks[t].pc = "l_sub"
    /\ rtasks[t].op = "Disconnect"
    /\ LockGranted(t, SubscribedLock)
    /\ IF rtasks[t].addr \in DOMAIN subscribed
       THEN /\ subscribed' = MapRemove(subscribed, rtasks[t].addr)
            /\ rtasks' = [rtasks EXCEPT ![t].entry = subscribed[rtasks[t].addr],
                                        ![t].pc = "l_entry"]
            /\ lqueue' = LockPass(t, SubscribedLock, EntryLock(rtasks[t].addr))
       ELSE /\ UNCHANGED subscribed
            /\ rtasks' = [rtasks EXCEPT ![t].pc = "done"]
            /\ lqueue' = LockLeave(SubscribedLock)
    /\ UNCHANGED <<subscribed_channels, subscribed_hubs, sinks, lockframe>>

\* Disconnect: the removed entry's guard, then
\* let subscribed_channels = subscribed_channels.write().await;
LockDisconnectEntry(t) ==
    /\ rtasks[t].pc = "l_entry"
    /\ rtasks[t].op = "Disconnect"
    /\ LockGranted(t, EntryLock(rtasks[t].addr))
    /\ rtasks' = [rtasks EXCEPT ![t].pc = "l_sc"]
    /\ lqueue' = LockPass(t, EntryLock(rtasks[t].addr), ChannelsLock)
    /\ UNCHANGED <<registry, sinks, lockframe>>

\* The channels of the removed entry whose subscriber set is in the map, and
\* its hubs likewise: the sets the loops of Disconnect still have to lock.
LockChannelsLeft(t) == rtasks[t].entry.channels \cap DOMAIN subscribed_channels
LockHubsLeft(t) == rtasks[t].entry.hubs \cap DOMAIN subscribed_hubs

\* Disconnect: the guard of subscribed_channels; for channel in
\* subscribed.0.iter() { if let Some(subs) = subscribed_channels.get(..) {
\* subs.write().await  -- or, with no set to lock, drop(subscribed_channels)
\* and subscribed_hubs.write().await
LockDisconnectChannels(t) ==
    /\ rtasks[t].pc = "l_sc"
    /\ LockGranted(t, ChannelsLock)
    /\ IF LockChannelsLeft(t) # {}
       THEN \E k \in LockChannelsLeft(t) :
               /\ rtasks' = [rtasks EXCEPT ![t].pc = "l_cset", ![t].hub = k[1],
                                           ![t].channel = k[2]]
               /\ lqueue' = LockPass(t, ChannelsLock, ChannelSetLock(k))
       ELSE /\ rtasks' = [rtasks EXCEPT ![t].pc = "l_sh"]
            /\ lqueue' = LockPass(t, ChannelsLock, HubsLock)
    /\ UNCHANGED <<registry, sinks, lockframe>>

\* Disconnect: subs.write().await.remove(&msg.addr) on a channel's set, then
\* the next channel, or drop(subscribed_channels) and
\* subscribed_hubs.write().await
LockDisconnectChannelSet(t) ==
    LET k == <<rtasks[t].hub, rtasks[t].channel>>
        left == LockChannelsLeft(t) \ {k}
    IN
    /\ rtasks[t].pc = "l_cset"
    /\ LockGranted(t, ChannelSetLock(k))
    /\ subscribed_channels' = RevRemoveChannel(subscribed_channels, k, rtasks[t].addr)
    /\ IF left # {}
       THEN \E n \in left :
               /\ rtasks' = [rtasks EXCEPT ![t].entry.channels = @ \ {k},
                                           ![t].hub = n[1], ![t].channel = n[2]]
               /\ lqueue' = LockPass(t, ChannelSetLock(k), ChannelSetLock(n))
       ELSE /\ rtasks' = [rtasks EXCEPT ![t].entry.channels = @ \ {k},
                                        ![t].hub = "-", ![t].channel = "-",
                                        ![t].pc = "l_sh"]
            /\ lqueue' = LockPass(t, ChannelSetLock(k), HubsLock)
    /\ UNCHANGED <<subscribed, subscribed_hubs, sinks, lockframe>>

\* Disconnect: the guard of subscribed_hubs; for hub in subscribed.1.iter()
\* { if let Some(subs) = subscribed_hubs.get(&hub) { subs.write().await  --
\* or, with no set to lock, the end of the block drops every guard.
LockDisconnectHubs(t) ==
    /\ rtasks[t].pc = "l_sh"
    /\ LockGranted(t, HubsLock)
    /\ IF LockHubsLeft(t) # {}
       THEN \E h \in LockHubsLeft(t) :
               /\ rtasks' = [rtasks EXCEPT ![t].pc = "l_hset", ![t].hub = h]
               /\ lqueue' = LockPass(t, HubsLock, HubSetLock(h))
       ELSE /\ rtasks' = [rtasks EXCEPT ![t].pc = "done"]
            /\ lqueue' = LockLeave(HubsLock)
    /\ UNCHANGED <<registry, sinks, lockframe>>

\* Disconnect: subs.write().await.remove(&msg.addr) on a hub's set, then the
\* next hub or the end of the block.
LockDisconnectHubSet(t) ==
    LET h == rtasks[t].hub
        left == LockHubsLeft(t) \ {h}
    IN
    /\ rtasks[t].pc = "l_hset"
    /\ LockGranted(t, HubSetLock(h))
    /\ subscribed_hubs' = RevRemoveHub(subscribed_hubs, h, rtasks[t].addr)
    /\ IF left # {}
       THEN \E n \in left :
               /\ rtasks' = [rtasks EXCEPT ![t].entry.hubs = @ \ {h}, ![t].hub = n]
               /\ lqueue' = LockPass(t, HubSetLock(h), HubSetLock(n))
       ELSE /\ rtasks' = [rtasks EXCEPT ![t].entry.hubs = @ \ {h}, ![t].hub = "-",
                                        ![t].pc = "done"]
            /\ lqueue' = LockLeave(HubSetLock(h))
    /\ UNCHANGED <<subscribed, subscribed_channels, sinks, lockframe>>

\* send_hub / send_channel: if let Some(subscribed_arc) = map.read().await
\* .get(..) { subscribed_arc.read().await
LockFanoutMap(t) ==
    LET present == IF rtasks[t].op = "send_hub"
                   THEN rtasks[t].hub \in DOMAIN subscribed_hubs
                   ELSE <<rtasks[t].hub, rtasks[t].channel>> \in DOMAIN subscribed_channels
    IN
    /\ rtasks[t].pc = "l_rev"
    /\ rtasks[t].op \in LockFanouts
    /\ LockGranted(t, RevLock(t))
    /\ IF present
       THEN /\ rtasks' = [rtasks EXCEPT ![t].pc = "l_set"]
            /\ lqueue' = LockPass(t, RevLock(t), SetLock(t))
       ELSE /\ rtasks' = [rtasks EXCEPT ![t].pc = "done"]
            /\ lqueue' = LockLeave(RevLock(t))
    /\ UNCHANGED <<registry, sinks, lockframe>>

\* send_hub / send_channel: for connection in subscribed_arc.read().await
\* .iter() { let _ = connection.do_send(message.clone()); }
LockFanoutSet(t, closed) ==
    LET key == <<rtasks[t].hub, rtasks[t].channel>> IN
    /\ rtasks[t].pc = "l_set"
    /\ rtasks[t].op \in LockFanouts
    /\ LockGranted(t, SetLock(t))
    /\ sinks' = IF rtasks[t].op = "send_hub"
                THEN send_hub(sinks, subscribed_hubs, HubUpdated(rtasks[t].hub),
                              rtasks[t].hub, closed)
                ELSE send_channel(sinks, subscribed_channels,
                                  TypingStart(key[1], key[2]), key, closed)
    /\ rtasks' = [rtasks EXCEPT ![t].pc = "done"]
    /\ lqueue' = LockLeave(SetLock(t))
    /\ UNCHANGED <<registry, lockframe>>

\* The steps of one future.
LockStep(t) ==
    \/ LockSubscribed(t)
    \/ LockEntry(t)
    \/ LockReverse(t)
    \/ LockSet(t)
    \/ LockDisconnectRemove(t)
    \/ LockDisconnectEntry(t)
    \/ LockDisconnectChannels(t)
    \/ LockDisconnectChannelSet(t)
    \/ LockDisconnectHubs(t)
    \/ LockDisconnectHubSet(t)
    \/ LockFanoutMap(t)
    \/ \E closed \in RouteClosed : LockFanoutSet(t, closed)

NextLock ==
    \/ \E t \in LockTasks, op \in LockSubscribes, addr \in Sessions, h \in ConcHubs,
          c \in Channels, v \in ConcViews :
           LockIssueSubscribe(t, op, addr, h, IF op = "SubscribeHub" THEN "-" ELSE c, v)
    \/ \E t \in LockTasks, op \in LockUnsubscribes, addr \in Sessions, h \in ConcHubs,
          c \in Channels :
           LockIssue(t, op, addr, h, IF op = "UnsubscribeHub" THEN "-" ELSE c)
    \/ \E t \in LockTasks, addr \in Sessions : LockIssue(t, "Disconnect", addr, "-", "-")
    \/ \E t \in LockTasks, op \in LockFanouts, h \in ConcHubs, c \in Channels :
           LockIssueFanout(t, op, h, IF op = "send_hub" THEN "-" ELSE c)
    \/ \E t \in LockTasks : LockSubscribed(t)
    \/ \E t \in LockTasks : LockEntry(t)
    \/ \E t \in LockTasks : LockReverse(t)
    \/ \E t \in LockTasks : LockSet(t)
    \/ \E t \in LockTasks : LockDisconnectRemove(t)
    \/ \E t \in LockTasks : LockDisconnectEntry(t)
    \/ \E t \in LockTasks : LockDisconnectChannels(t)
    \/ \E t \in LockTasks : LockDisconnectChannelSet(t)
    \/ \E t \in LockTasks : LockDisconnectHubs(t)
    \/ \E t \in LockTasks : LockDisconnectHubSet(t)
    \/ \E t \in LockTasks : LockFanoutMap(t)
    \/ \E t \in LockTasks, closed \in RouteClosed : LockFanoutSet(t, closed)

SpecLock == Init /\ [][NextLock]_vars

\* The arbiter polls every future that has been woken: a future whose lock
\* can be granted takes its step.
SpecLockLive == SpecLock /\ \A t \in LockTasks : WF_vars(LockStep(t))

\* The place of a lock in the order the handlers take them.
LockRank(l) ==
    CASE l[1] = "subscribed" -> 1
      [] l[1] = "entry" -> 2
      [] l[1] = "subscribed_channels" -> 3
      [] l[1] = "channel_set" -> 4
      [] l[1] = "subscribed_hubs" -> 5
      [] l[1] = "hub_set" -> 6

\* The top-level map a lock belongs to: the map itself, or the map whose
\* entry the lock guards.
LockMap(l) ==
    CASE l[1] = "entry" -> SubscribedLock
      [] l[1] = "channel_set" -> ChannelsLock
      [] l[1] = "hub_set" -> HubsLock
      [] OTHER -> l

\* A per-entry lock is asked for under the guard of its map.
MapBeforeEntry ==
    \A t \in LockTasks : \A w \in LockWants(t) : w \in MapLocks \/ LockMap(w) \in LockHolds(t)

\* Every command the actor has taken completes.
LockProgress ==
    \A t \in LockTasks : (rtasks[t].pc # "idle") ~> (rtasks[t].pc = "done")

\* C29 as stated: a top-level map lock is never asked for by a future that
\* holds a per-entry lock, a per-entry lock is asked for under its map's
\* guard, and every operation completes.
C29_DeadlockFree ==
    /\ [](/\ MapBeforeEntry
          /\ \A t \in LockTasks : \A w \in LockWants(t) :
                w \in MapLocks => LockHolds(t) \subseteq MapLocks)
    /\ LockProgress

\* C29, amended: a per-entry lock is asked for under its map's guard, every
\* future asks for its locks in the order subscribed, session entry,
\* subscribed_channels, channel set, subscribed_hubs, hub set (Disconnect
\* asks for the two reverse maps while it holds the session's entry), and
\* every operation completes.
C29_LockOrder ==
    /\ [](/\ MapBeforeEntry
          /\ \A t \in LockTasks : \A w \in LockWants(t) : \A h \in LockHolds(t) :
                LockRank(h) < LockRank(w))
    /\ LockProgress

\* C29 witness: a Disconnect that holds the guards of subscribed and of the
\* session's entry waits for subscribed_channels, which a SubscribeChannel
\* holds while it waits for nothing but its subscriber set.
C29_Witness ==
    \E t, u \in LockTasks :
        /\ rtasks[t].op = "Disconnect"
        /\ rtasks[t].pc = "l_sc"
        /\ rtasks[u].op = "SubscribeChannel"
        /\ rtasks[u].pc = "l_set"
        /\ ~LockGranted(t, ChannelsLock)

\* The arbiter polls every handler future of the message server that can go
\* on; kills, new commands and new stored messages are the environment's.
SetupStep ==
    \/ \E t \in IndexTasks : SetupCheck(t)
    \/ \E t \in IndexTasks : SetupWriter(t)
    \/ \E t \in IndexTasks : SetupReplay(t)
    \/ \E t \in IndexTasks : SetupInsertIndex(t)
    \/ \E t \in IndexTasks : SetupInsertReader(t)
    \/ \E t \in IndexTasks : SetupInsertWriter(t)
    \/ \E t \in AddTasks : AddLock(t)
    \/ \E t \in AddTasks : AddRead(t)
    \/ \E t \in AddTasks : AddLog(t)
    \/ \E t \in IndexTasks : PendingWrite(t)
    \/ \E t \in SearchTasks : SearchRead(t)
    \/ \E t \in SearchTasks : SearchCommit(t)
    \/ \E t \in SearchTasks : SearchLog(t)
    \/ \E t \in SearchTasks : SearchQuery(t)
SpecSetupLive == SpecSetup /\ WF_vars(SetupStep)

\* C30: forced commit in search.  A search that finds pending_count above 0
\* gets, unless the process is killed, to its query with the writer
\* committed, pending_count 0 and the log holding last_pending_id; the steps
\* of a search that found pending_count 0 on an open index change neither
\* pending_messages nor the log.
C30_ForcedCommit ==
    /\ \A t \in SearchTasks :
          (itasks[t].pc = "s_commit")
             ~> \/ itasks[t].pc = "killed"
                \/ /\ itasks[t].pc = "s_check"
                   /\ IdxKey \in DOMAIN pending_messages
                   /\ pending_messages[IdxKey].count = 0
                   /\ LogHolds(pending_messages[IdxKey].id)
    /\ [][\A t \in SearchTasks :
             (/\ itasks[t].pc \in {"s_read", "s_check", "s_search"}
              /\ itasks'[t].pc \in {"s_check", "s_search", "done"}
              /\ itasks'[t] # itasks[t])
             => UNCHANGED <<pending_messages, recovery_log>>]_vars

\* The documents added to the channel's writer and not committed yet.
RECURSIVE SumDocs(_, _)
SumDocs(docs, n) == IF n = 0 THEN 0 ELSE docs[n] + SumDocs(docs, n - 1)
WriterDocs ==
    IF IdxKey \in DOMAIN index_writers
    THEN SumDocs(index_writers[IdxKey], MaxMsgs) ELSE 0

\* C31: pending_count.  Whenever no handler of the channel is in flight,
\* pending_count lies in 0..TANTIVY_COMMIT_THRESHOLD and is the number of
\* documents added to the writer since the last successful commit.
C31_PendingCount ==
    (InFlight = {} /\ IdxKey \in DOMAIN pending_messages)
        => /\ pending_messages[IdxKey].count \in 0..TANTIVY_COMMIT_THRESHOLD
           /\ pending_messages[IdxKey].count = WriterDocs

\* C32: an add below the threshold on a channel whose log exists.  Its log
\* step leaves the log as it is and goes on, and the add returns Ok with
\* pending_count one higher and last_pending_id the id of its message.
C32_AddBelowThreshold ==
    [][\A t \in AddTasks :
          /\ (/\ itasks[t].pc = "a_log"
              /\ itasks[t].new_pending # 0
              /\ recovery_log # <<>>
              /\ IdxKey \in DOMAIN pending_messages
              /\ itasks'[t] # itasks[t]
              /\ itasks'[t].pc # "killed")
             => /\ itasks'[t].pc = "a_write"
                /\ recovery_log' = recovery_log
          /\ (/\ itasks[t].pc = "a_write"
              /\ itasks[t].new_pending # 0
              /\ IdxKey \in DOMAIN pending_messages
              /\ itasks'[t].pc = "done")
             => /\ itasks'[t].res = "Ok"
                /\ pending_messages'[IdxKey].count = pending_messages[IdxKey].count + 1
                /\ pending_messages'[IdxKey].id = t[2]]_vars

\* C33: first-add bootstrap.  The log step of an add that finds no log file
\* creates the log with the id of its message; the add counted 1 pending
\* document, commits nothing, and returns Ok with pending_messages holding
\* (1, id) and its document uncommitted in the writer.
C33_FirstAddBootstrap ==
    [][\A t \in AddTasks :
          /\ (/\ itasks[t].pc = "a_log"
              /\ recovery_log = <<>>
              /\ itasks'[t] # itasks[t]
              /\ itasks'[t].pc # "killed")
             => /\ recovery_log' = to_ne_bytes(t[2])
                /\ Len(recovery_log') = IdBytes
                /\ itasks[t].new_pending = 1
                /\ itasks'[t].pc = "a_write"
                /\ index_docs' = index_docs
          /\ (/\ itasks[t].pc = "a_write"
              /\ IdxKey \notin DOMAIN pending_messages
              /\ itasks'[t].pc = "done")
             => /\ itasks'[t].res = "Ok"
                /\ pending_messages'[IdxKey] = [count |-> 1, id |-> t[2]]
                /\ LogHolds(t[2])
                /\ index_docs' = index_docs
                /\ index_docs[t[2]] = 0
                /\ index_writers'[IdxKey][t[2]] = 1]_vars

\* C33 witness: the first add has returned Ok; the log holds its id,
\* pending_count is 1 and nothing is committed.
C33_Witness ==
    /\ itasks[<<"add", 1>>].pc = "done"
    /\ itasks[<<"add", 1>>].res = "Ok"
    /\ LogHolds(1)
    /\ IdxKey \in DOMAIN pending_messages
    /\ pending_messages[IdxKey] = [count |-> 1, id |-> 1]
    /\ index_docs = NoDocs
    /\ crashes = 0

\* ============================================================ SpecNotify
\* The NewMessage notification handler of AsyncServer together with the
\* message server it waits for: the handler future sends NewMessageForIndex,
\* awaits the answer of the add handler and only then calls send_channel.

\* The messages notified, and who subscribes to their channel.
NotifyMsgs == {1, 2}
NotifySubscribeViews == { v \in SubscribeViews : v.owner }

\* Handler<ServerNotification>, NewMessage: message_server.send(
\* NewMessageForIndex { .. }) puts the add in the message server's mailbox.
NotifyIndex(m) ==
    /\ notify.pc = "idle"
    /\ ~stopped
    /\ m <= store[IdxKey]
    /\ itasks[<<"add", m>>].pc = "idle"
    /\ Cardinality(InFlight) < MaxInFlight
    /\ notify' = [pc |-> "index", hub |-> IdxKey[1], channel |-> IdxKey[2], id |-> m]
    /\ itasks' = [itasks EXCEPT ![<<"add", m>>].pc = "a_check"]
    /\ UNCHANGED <<registry, last, rtasks, store, sinks, stasks, restvars, big_endian,
                   stopped, faults, recovery_log, index_docs, index_writers,
                   pending_messages, crashes, precrash, add_returns>>

\* .await of the request: it resolves when the add handler's future has
\* resolved, with Ok or with an error; the result is dropped (`let _ =`) and
\* the handler goes on to send_channel.
NotifyIndexed(closed) ==
    /\ notify.pc = "index"
    /\ itasks[<<"add", notify.id>>].pc = "done"
    /\ LET key == <<notify.hub, notify.channel>>
           e == NewMessage(notify.hub, notify.channel, notify.id)
       IN  sinks' = send_channel(sinks, subscribed_channels, e, key, closed)
    /\ notify' = IdleNotify
    /\ UNCHANGED <<registry, last, rtasks, store, stasks, idxvars, restvars>>

NextNotify ==
    \/ IndexStore
    \/ \E addr \in Sessions, v \in NotifySubscribeViews : SubscribeChannel(IdxKey, addr, v)
    \/ \E m \in NotifyMsgs : NotifyIndex(m)
    \/ \E closed \in RouteClosed : NotifyIndexed(closed)
    \/ \E n \in SetupSearches : SearchIssue(n)
    \/ \E t \in IndexTasks : SetupCheck(t)
    \/ \E t \in IndexTasks : SetupWriter(t)
    \/ \E t \in IndexTasks : SetupReplay(t)
    \/ \E t \in IndexTasks : SetupInsertIndex(t)
    \/ \E t \in IndexTasks : SetupInsertReader(t)
    \/ \E t \in IndexTasks : SetupInsertWriter(t)
    \/ \E t \in AddTasks : AddLock(t)
    \/ \E t \in AddTasks : AddRead(t)
    \/ \E t \in AddTasks : AddLog(t)
    \/ \E t \in IndexTasks : PendingWrite(t)
    \/ \E t \in SearchTasks : SearchRead(t)
    \/ \E t \in SearchTasks : SearchCommit(t)
    \/ \E t \in SearchTasks : SearchLog(t)
    \/ \E t \in SearchTasks : SearchQuery(t)

SpecNotify == Init /\ [][NextNotify]_vars

\* Both arbiters poll every future that can go on.
SpecNotifyLive ==
    SpecNotify /\ WF_vars(SetupStep) /\ WF_vars(\E closed \in RouteClosed : NotifyIndexed(closed))

\* C34: fan-out does not depend on indexing.  Every NewMessage notification
\* the server has accepted is eventually fanned out, and the fan-out queues
\* the event for every current subscriber of the channel whose mailbox is
\* open, whatever became of the add of that message.
C34_FanoutWithoutIndex ==
    /\ \A m \in NotifyMsgs :
          (notify.pc = "index" /\ notify.id = m) ~> (notify.pc = "idle")
    /\ [][(notify.pc = "index" /\ notify'.pc = "idle")
          => \A s \in ChannelSubscribers(IdxKey) :
                \/ sinks'[s] = Append(sinks[s], NewMessage(IdxKey[1], IdxKey[2], notify.id))
                \/ sinks'[s] = sinks[s]]_vars

\* C35: every search returns.  Unless the process is killed, every search the
\* message server has taken up resolves, also one that found pending_count
\* above 0, and so does every add.
C35_SearchReturns ==
    /\ \A t \in SearchTasks :
          (itasks[t].pc # "idle") ~> (itasks[t].pc \in {"done", "killed"})
    /\ \A t \in AddTasks :
          (itasks[t].pc # "idle") ~> (itasks[t].pc \in {"done", "killed"})

\* ---------------------------------------------------------------------------
\* The writers of the recovery log: the handlers of SpecSetup together with
\* the shutdown of the message server.

NextLog ==
    \/ NextSetup
    \/ Stopping

SpecLog == Init /\ [][NextLog]_vars

\* The message id a recovery log holds, read back in the byte order it was
\* written in (0 for a log that holds no id of the channel).
LoggedId(b) ==
    IF \E m \in 1..MaxMsgs : b = to_ne_bytes(m)
    THEN CHOOSE m \in 1..MaxMsgs : b = to_ne_bytes(m)
    ELSE 0

\* C36: the recovery log never regresses.  Every write that replaces the
\* content of an existing recovery log stores the id of a message created at
\* or after the message whose id the log held before.
C36_LogNeverRegresses ==
    [][(recovery_log # <<>> /\ recovery_log' # recovery_log)
       => /\ LoggedId(recovery_log') # 0
          /\ LoggedId(recovery_log') >= LoggedId(recovery_log)]_vars

\* The log of a restarted server holds the id of a message no add handler was
\* given: the replay of setup_index replaced the log that was there.
C36_Witness ==
    /\ crashes >= 1
    /\ \E m \in 2..MaxMsgs :
          /\ LogHolds(m)
          /\ itasks[<<"add", m>>].pc = "idle"
          /\ index_docs[m] >= 1

\* ============================================================== SpecFail
\* The ways setup_index fails once it owns the writer, all of them inside
\* `if log_path.is_file()`: the step that fails and the error it returns.
SetupFailures ==
    { <<"read", "Io">>,            \* tokio::fs::read of the log, read_exact
      <<"hub", "HubNotFound">>,    \* !path.exists()
      <<"hub", "Io">>,             \* read_to_string of the hub file
      <<"hub", "Deserialize">>,    \* serde_json::from_str
      <<"replay", "Serialize">>,   \* add_message_to_writer
      <<"replay", "Commit">>,      \* writer.commit()
      <<"log", "Io">>,             \* log_last_message
      <<"reload", "Reload">> }     \* reader.reload()

SetupErrors == { f[2] : f \in SetupFailures }

\* setup_index returns Err at step f[1]: the index, the reader and the writer
\* it created are dropped.  A failure after writer.commit() leaves the
\* replayed documents committed, one after log_last_message the new log too.
SetupFail(t, f) ==
    /\ itasks[t].pc \in {"a_replay", "s_replay"}
    /\ recovery_log # <<>>
    /\ f[1] = "log" => ReplayIds # {}
    /\ Return(t, f[2])
    /\ index_docs' = IF f[1] \in {"log", "reload"}
                     THEN Commit(index_docs, AddDocs(NoDocs, ReplayIds))
                     ELSE index_docs
    /\ recovery_log' = IF f[1] = "reload" /\ ReplayIds # {}
                       THEN to_ne_bytes(LastOf(ReplayIds)) ELSE recovery_log
    /\ UNCHANGED <<registry, last, rtasks, store, sendvars, restvars, big_endian,
                   stopped, faults, index_writers, pending_messages, crashes,
                   precrash>>

NextFail ==
    \/ NextSetup
    \/ \E t \in IndexTasks, f \in SetupFailures : SetupFail(t, f)

SpecFail == Init /\ [][NextFail]_vars

\* C37: a failed setup registers nothing.  When setup_index fails on the hub
\* file, the recovery log, the replay or the commit, the handler returns that
\* error and the (hub, channel) is in none of indexes, index_readers and
\* index_writers; and whenever no setup is in progress the three maps have
\* the same key set.
C37_FailedSetupRegistersNothing ==
    /\ [](InSetup = {} =>
             /\ indexes = index_readers
             /\ index_readers = DOMAIN index_writers)
    /\ [][\A t \in IndexTasks :
             (itasks[t].pc \in {"a_replay", "s_replay"} /\ itasks'[t].pc = "done")
             => /\ itasks'[t].res \in SetupErrors
                /\ IdxKey \notin indexes'
                /\ IdxKey \notin index_readers'
                /\ IdxKey \notin DOMAIN index_writers']_vars

\* A setup has failed on the missing hub file, no setup is in progress and
\* the channel is in none of the three maps.
C37_Witness ==
    /\ \E t \in IndexTasks : itasks[t].pc = "done" /\ itasks[t].res = "HubNotFound"
    /\ InSetup = {}
    /\ indexes = {} /\ index_readers = {} /\ index_writers = EmptyMap

\* ============================================================== SpecAuth
\* The authentication manager of auth.rs.  Every call is a future that runs
\* from one .await to the next; it waits for the manager lock and for the
\* session-map lock in the first-come-first-served queue of tokio's RwLock,
\* and for the GitHub service lock (futures::lock::Mutex) until it is free.

authframe == <<registry, last, rtasks, store, sendvars, idxvars, name, valid_username,
               hub_updates, api_calls, lqueue, mapvars>>

\* The body of Auth::is_authenticated under the two read locks.
is_authenticated(map, id, token, t) ==
    LET hashed == hash_auth(id, token)
    IN  /\ hashed[1] \in DOMAIN map
        /\ hashed[2] \in DOMAIN map[hashed[1]]
        /\ map[hashed[1]][hashed[2]] > t

\* finalize_login's insertion of (hashed token, expires) for the user.
insert_token(map, id, token, expires) ==
    LET hashed == hash_auth(id, token)
    IN  IF hashed[1] \in DOMAIN map
        THEN [map EXCEPT ![hashed[1]] = MapPut(@, hashed[2], expires)]
        ELSE MapPut(map, hashed[1], MapPut(EmptyMap, hashed[2], expires))

\* AuthQuery.expires: Option<u128>, None as <<>> and Some(e) as <<e>>.
ExpiresInputs == {<<>>} \cup { <<e>> : e \in 1..MaxNow }

\* The login secrets (CsrfToken::new_random), one for each start_login; 0 is
\* a state the server never handed out.
LoginSecrets == AuthTasks

\* Tokens: those of the session file, and those finalize_login generates.
StoredTokens == 1..Cardinality(AuthUsers)
FreshTokens == (Cardinality(AuthUsers) + 1)..(Cardinality(AuthUsers) + MaxTokens)

\* data/sessions.json when the server starts: there is none, or user u holds
\* token u, the first user's for a week, the others' until the first tick of
\* the clock.
SessionFiles ==
    { [h \in { sha3(u) : u \in us } |->
          LET u == CHOOSE x \in us : sha3(x) = h
          IN  MapPut(EmptyMap, sha3(u), IF u = 1 THEN Week ELSE 1)] :
      us \in {{}, AuthUsers} }

\* The calls made on the manager.
AuthCalls ==
    { [op |-> "is_authenticated", id |-> u, token |-> k, state |-> 0,
       expires |-> <<>>] :
          u \in AuthUsers, k \in StoredTokens \cup FreshTokens }
    \cup { [op |-> "invalidate_tokens", id |-> u, token |-> 0, state |-> 0,
            expires |-> <<>>] : u \in AuthUsers }
    \cup { [op |-> "start_login", id |-> 0, token |-> 0, state |-> 0,
            expires |-> <<>>] }
    \cup { [op |-> "handle_oauth", id |-> 0, token |-> 0, state |-> st, expires |-> e] :
              st \in {0} \cup LoginSecrets, e \in ExpiresInputs }

\* What the futures hold between two steps.
AuthHolds(t) ==
    LET pc == atasks[t].pc
    IN  (IF pc \in {"ia_ses", "ia_read", "iv_ses", "sl_svc", "ho_svc", "ho_fses"}
         THEN {"manager"} ELSE {})
        \cup (IF pc \in {"ia_read", "iv_remove", "iv_save", "ho_insert", "ho_save"}
              THEN {"sessions"} ELSE {})
        \cup (IF pc \in {"sl_login", "ho_session", "ho_user", "ho_fmgr", "ho_fses",
                        "ho_insert", "ho_save"}
              THEN {"github"} ELSE {})

\* is_authenticated takes both RwLocks with read(), the others with write().
AuthMode(t) == IF atasks[t].op = "is_authenticated" THEN "read" ELSE "write"

\* tokio's RwLock hands the lock to the future at the head of its queue, a
\* reader beside readers, a writer alone.
AuthGranted(t, l) ==
    /\ aqueue[l] # <<>>
    /\ Head(aqueue[l]) = t
    /\ \A u \in AuthTasks \ {t} :
          l \in AuthHolds(u) => (AuthMode(u) = "read" /\ AuthMode(t) = "read")

\* The calls that are pending.
AuthPending == { t \in AuthTasks : atasks[t].pc \notin {"idle", "done", "killed"} }

\* Tokens are 64 random bytes: each one is new.
TokensUsed == { r.token : r \in issued } \cup { atasks[u].token : u \in AuthPending }

NextToken == CHOOSE k \in FreshTokens : k \notin TokensUsed

\* A call is made: the future starts and asks for the manager lock.  The
\* expiry of handle_oauth is query.expires.unwrap_or(now + a week).
AuthCall(t, call) ==
    /\ atasks[t].pc = "idle"
    /\ \A u \in 1..(t - 1) : atasks[u].pc # "idle"
    /\ Cardinality(AuthPending) < MaxAuthInFlight
    /\ call.op = "handle_oauth" => call.state \in {0} \cup login_sessions
    /\ atasks' = [atasks EXCEPT ![t] =
          [op |-> call.op,
           pc |-> CASE call.op = "is_authenticated" -> "ia_mgr"
                    [] call.op = "invalidate_tokens" -> "iv_mgr"
                    [] call.op = "start_login" -> "sl_mgr"
                    [] OTHER -> "ho_mgr",
           id |-> call.id, token |-> call.token, state |-> call.state,
           expires |-> IF call.op # "handle_oauth" THEN 0
                       ELSE IF call.expires = <<>> THEN now + Week
                       ELSE call.expires[1],
           res |-> "-",
           before |-> IF call.op = "invalidate_tokens"
                      THEN { r.token : r \in { x \in issued : x.id = call.id } }
                      ELSE {}]]
    /\ aqueue' = [aqueue EXCEPT !["manager"] = Append(@, t)]
    /\ UNCHANGED <<authframe, auth_sessions, session_file, login_sessions, now,
                   issued, revoked>>

\* The call has returned res: what stays of it is its answer, and of
\* is_authenticated the pair that was asked about.
AuthReturn(t, res) ==
    atasks' = [atasks EXCEPT ![t] =
                  [IdleAuthTask EXCEPT
                      !.op = atasks[t].op, !.pc = "done", !.res = res,
                      !.id = IF atasks[t].op = "is_authenticated"
                             THEN atasks[t].id ELSE 0,
                      !.token = IF atasks[t].op = "is_authenticated"
                                THEN atasks[t].token ELSE 0]]

\* manager.read().await / manager.write().await is granted.  is_authenticated,
\* invalidate_tokens and finalize_login go on to the session map, start_login
\* and handle_oauth to the service lock, all with the manager lock held.
AuthManager(t) ==
    /\ atasks[t].pc \in {"ia_mgr", "iv_mgr", "sl_mgr", "ho_mgr", "ho_fmgr"}
    /\ AuthGranted(t, "manager")
    /\ atasks' = [atasks EXCEPT ![t].pc =
          CASE atasks[t].pc = "ia_mgr" -> "ia_ses"
            [] atasks[t].pc = "iv_mgr" -> "iv_ses"
            [] atasks[t].pc = "sl_mgr" -> "sl_svc"
            [] atasks[t].pc = "ho_mgr" -> "ho_svc"
            [] OTHER -> "ho_fses"]
    /\ aqueue' = [aqueue EXCEPT
          !["manager"] = Tail(@),
          !["sessions"] = IF atasks[t].pc \in {"ia_mgr", "iv_mgr", "ho_fmgr"}
                          THEN Append(@, t) ELSE @]
    /\ UNCHANGED <<authframe, auth_sessions, session_file, login_sessions, now,
                   issued, revoked>>

\* sessions_arc.read().await / .write().await is granted; the block that
\* holds the manager's write guard ends there.
AuthSessions(t) ==
    /\ atasks[t].pc \in {"ia_ses", "iv_ses", "ho_fses"}
    /\ AuthGranted(t, "sessions")
    /\ atasks' = [atasks EXCEPT ![t].pc =
          CASE atasks[t].pc = "ia_ses" -> "ia_read"
            [] atasks[t].pc = "iv_ses" -> "iv_remove"
            [] OTHER -> "ho_insert"]
    /\ aqueue' = [aqueue EXCEPT !["sessions"] = Tail(@)]
    /\ UNCHANGED <<authframe, auth_sessions, session_file, login_sessions, now,
                   issued, revoked>>

\* service_arc.lock().await is granted; the manager's write guard is dropped.
AuthService(t) ==
    /\ atasks[t].pc \in {"sl_svc", "ho_svc"}
    /\ \A u \in AuthTasks : "github" \notin AuthHolds(u)
    /\ atasks' = [atasks EXCEPT ![t].pc =
          IF atasks[t].pc = "sl_svc" THEN "sl_login" ELSE "ho_session"]
    /\ UNCHANGED <<authframe, auth_sessions, session_file, login_sessions, aqueue,
                   now, issued, revoked>>

\* is_authenticated looks the pair up and returns.
AuthRead(t) ==
    /\ atasks[t].pc = "ia_read"
    /\ AuthReturn(t, IF is_authenticated(auth_sessions, atasks[t].id,
                                         atasks[t].token, now)
                      THEN "true" ELSE "false")
    /\ UNCHANGED <<authframe, auth_sessions, session_file, login_sessions, aqueue,
                   now, issued, revoked>>

\* Mutant: invalidate_tokens removes the key hash_auth(id, String::new()).1,
\* the hash of the empty token.
AuthRemove_TokenKey(t) ==
    /\ atasks[t].pc = "iv_remove"
    /\ auth_sessions' = MapRemove(auth_sessions, hash_auth(atasks[t].id, 0)[2])
    /\ atasks' = [atasks EXCEPT ![t].pc = "iv_save"]
    /\ UNCHANGED <<authframe, session_file, login_sessions, aqueue, now, issued,
                   revoked>>

\* sessions_lock.remove(hash_auth(id, String::new()).0.as_str())
AuthRemove(t) ==
    /\ atasks[t].pc = "iv_remove"
    /\ auth_sessions' = MapRemove(auth_sessions, hash_auth(atasks[t].id, 0)[1])
    /\ atasks' = [atasks EXCEPT ![t].pc = "iv_save"]
    /\ UNCHANGED <<authframe, session_file, login_sessions, aqueue, now, issued,
                   revoked>>

\* Auth::save_tokens(&sessions_lock), and the call returns: invalidate_tokens
\* with nothing, finalize_login and so handle_oauth with the IDToken.
AuthSave(t) ==
    /\ atasks[t].pc \in {"iv_save", "ho_save"}
    /\ session_file' = auth_sessions
    /\ AuthReturn(t, "Ok")
    /\ revoked' = IF atasks[t].op = "invalidate_tokens"
                  THEN revoked \cup { <<atasks[t].id, k>> : k \in atasks[t].before }
                  ELSE revoked
    /\ UNCHANGED <<authframe, auth_sessions, login_sessions, aqueue, now, issued>>

\* GitHub::start_login: a new login secret is entered in GitHub.sessions and
\* the authorize URL returned.
AuthStartLogin(t) ==
    /\ atasks[t].pc = "sl_login"
    /\ login_sessions' = login_sessions \cup {t}
    /\ AuthReturn(t, "Ok")
    /\ UNCHANGED <<authframe, auth_sessions, session_file, aqueue, now, issued,
                   revoked>>

\* GitHub::handle_oauth: get_session removes the login session of the state,
\* and the code is exchanged.
AuthGetSession(t, exchanged) ==
    /\ atasks[t].pc = "ho_session"
    /\ login_sessions' = login_sessions \ {atasks[t].state}
    /\ IF atasks[t].state \notin login_sessions THEN AuthReturn(t, "InvalidSession")
       ELSE IF exchanged THEN atasks' = [atasks EXCEPT ![t].pc = "ho_user"]
       ELSE AuthReturn(t, "OAuthExchangeFailed")
    /\ UNCHANGED <<authframe, auth_sessions, session_file, aqueue, now, issued,
                   revoked>>

\* get_id, get_email, and in finalize_login the account of the GitHub user
\* and the new token; then manager.write().await with the service lock held.
AuthGetUser(t, user, res) ==
    /\ atasks[t].pc = "ho_user"
    /\ IF res = "Ok"
       THEN /\ FreshTokens \ TokensUsed # {}
            /\ atasks' = [atasks EXCEPT ![t].pc = "ho_fmgr", ![t].id = user,
                                        ![t].token = NextToken]
            /\ aqueue' = [aqueue EXCEPT !["manager"] = Append(@, t)]
       ELSE /\ AuthReturn(t, res)
            /\ UNCHANGED aqueue
    /\ UNCHANGED <<authframe, auth_sessions, session_file, login_sessions, now,
                   issued, revoked>>

\* finalize_login enters the token and drops what has expired.
AuthInsert(t) ==
    /\ atasks[t].pc = "ho_insert"
    /\ auth_sessions' =
          retain_unexpired(insert_token(auth_sessions, atasks[t].id, atasks[t].token,
                                        atasks[t].expires), now)
    /\ issued' = issued \cup {[id |-> atasks[t].id, token |-> atasks[t].token,
                               expires |-> atasks[t].expires]}
    /\ atasks' = [atasks EXCEPT ![t].pc = "ho_save"]
    /\ UNCHANGED <<authframe, session_file, login_sessions, aqueue, now, revoked>>

\* Time passes.
Tick ==
    /\ now < MaxNow
    /\ now' = now + 1
    /\ UNCHANGED <<authframe, auth_sessions, session_file, login_sessions, atasks,
                   aqueue, issued, revoked>>

\* The process is killed, once in a run, and started again: Auth::from_config
\* loads the session file, drops what has expired and saves it.
AuthRestart ==
    /\ AuthPending # {}
    /\ \A t \in AuthTasks : atasks[t].pc # "killed"
    /\ auth_sessions' = load_tokens(session_file, now)
    /\ session_file' = load_tokens(session_file, now)
    /\ login_sessions' = {}
    /\ aqueue' = [l \in AuthLocks |-> <<>>]
    /\ atasks' = [t \in AuthTasks |->
                     IF t \notin AuthPending THEN atasks[t]
                     ELSE [IdleAuthTask EXCEPT !.op = atasks[t].op, !.pc = "killed"]]
    /\ UNCHANGED <<authframe, now, issued, revoked>>

AuthErrors == {"NoResponse", "BadJson"}

AuthStep(t) ==
    \/ AuthManager(t)
    \/ AuthSessions(t)
    \/ AuthService(t)
    \/ AuthRead(t)
    \/ AuthRemove(t)
    \/ AuthSave(t)
    \/ AuthStartLogin(t)
    \/ \E exchanged \in BOOLEAN : AuthGetSession(t, exchanged)
    \/ \E user \in AuthUsers, res \in {"Ok"} \cup AuthErrors : AuthGetUser(t, user, res)
    \/ AuthInsert(t)

NextAuth ==
    \/ \E t \in AuthTasks, call \in AuthCalls : AuthCall(t, call)
    \/ \E t \in AuthTasks : AuthStep(t)
    \/ Tick
    \/ AuthRestart

InitAuth ==
    session_file \in SessionFiles /\ Construct /\ big_endian = FALSE /\ name = <<>>

SpecAuth == InitAuth /\ [][NextAuth]_vars

\* Every future that can take a step takes one, and a future whose lock is
\* free again and again gets it.
SpecAuthLive == SpecAuth /\ \A t \in AuthTasks : SF_vars(AuthStep(t))

\* C38: the authentication manager is deadlock-free.  Unless the process is
\* killed, every call of start_login, handle_oauth, is_authenticated and
\* invalidate_tokens gets the locks it asks for and returns.
C38_AuthDeadlockFree ==
    \A t \in AuthTasks :
        (t \in AuthPending) ~> (atasks[t].pc \in {"done", "killed"})

\* What is_authenticated(u, k) would answer on a session map at time t, for
\* every token of user u.
AuthView(map, u, t) ==
    { k \in StoredTokens \cup FreshTokens : is_authenticated(map, u, k, t) }

====
